---- MODULE Spec2Model ----
(***************************************************************************)
(* A model of zulu.Zulu (src/src/zulu/zulu.py): the UTC-normalised         *)
(* datetime value, its calendar arithmetic (shift/add/subtract, start_of,  *)
(* end_of, span) and the range / span_range generators.                    *)
(*                                                                         *)
(* A Zulu value is the record of its datetime fields plus the tzinfo       *)
(* object it stores.  Integers stay below 2^31: a timedelta is kept as     *)
(* (days, seconds, microseconds) exactly as datetime.timedelta keeps it.   *)
(***************************************************************************)
EXTENDS Integers, Sequences, FiniteSets, TLC

(***************************************************************************)
(* Program constants                                                       *)
(***************************************************************************)
MINYEAR == 1
MAXYEAR == 9999
MAXORDINAL == 3652059

\* zulu.py:31-41
TIME_FRAMES ==
    {"century", "decade", "year", "month", "week", "day", "hour", "minute", "second"}

(***************************************************************************)
(* Error values.  Every operation returns either a value or Err(kind).     *)
(***************************************************************************)
Err(kind) == [err |-> kind]
IsErr(x) == "err" \in DOMAIN x

\* None, where a value may be absent.
NoValue == [none |-> TRUE]

(***************************************************************************)
(* The proleptic Gregorian calendar of datetime, which Zulu subclasses.    *)
(***************************************************************************)
IsLeap(y) == (y % 4 = 0) /\ ((y % 100 # 0) \/ (y % 400 = 0))

DaysInMonth(y, m) ==
    IF m = 2 THEN (IF IsLeap(y) THEN 29 ELSE 28)
    ELSE IF m \in {4, 6, 9, 11} THEN 30 ELSE 31

DAYS_BEFORE_MONTH == <<0, 31, 59, 90, 120, 151, 181, 212, 243, 273, 304, 334>>

DaysBeforeMonth(y, m) ==
    DAYS_BEFORE_MONTH[m] + (IF m > 2 /\ IsLeap(y) THEN 1 ELSE 0)

DaysBeforeYear(y) ==
    LET p == y - 1 IN p * 365 + (p \div 4) - (p \div 100) + (p \div 400)

Ymd2Ord(y, m, d) == DaysBeforeYear(y) + DaysBeforeMonth(y, m) + d

\* datetime._ord2ymd: 400/100/4/1-year cycles, then the month estimate.
MonthOf(year, nr, est, pre, dim) ==
    IF pre > nr
    THEN [year |-> year, month |-> est - 1, day |-> nr - (pre - dim) + 1]
    ELSE [year |-> year, month |-> est, day |-> nr - pre + 1]

MonthEstimate(year, nr, leap, est) ==
    MonthOf(year, nr, est,
            DAYS_BEFORE_MONTH[est] + (IF est > 2 /\ leap THEN 1 ELSE 0),
            IF est - 1 = 2 THEN (IF leap THEN 29 ELSE 28)
            ELSE IF (est - 1) \in {4, 6, 9, 11} THEN 30 ELSE 31)

YearCycles(n400, n100, n4, n1, nr) ==
    IF n1 = 4 \/ n100 = 4
    THEN [year |-> n400 * 400 + n100 * 100 + n4 * 4 + n1, month |-> 12, day |-> 31]
    ELSE MonthEstimate(n400 * 400 + 1 + n100 * 100 + n4 * 4 + n1, nr,
                       (n1 = 3) /\ (n4 # 24 \/ n100 = 3), (nr + 50) \div 32)

Ord2Ymd(n) ==
    YearCycles((n - 1) \div 146097,
               ((n - 1) % 146097) \div 36524,
               (((n - 1) % 146097) % 36524) \div 1461,
               ((((n - 1) % 146097) % 36524) % 1461) \div 365,
               ((((n - 1) % 146097) % 36524) % 1461) % 365)

\* date.weekday(): Monday = 0 .. Sunday = 6
Weekday(y, m, d) == (Ymd2Ord(y, m, d) + 6) % 7

\* date.isoweekday(): Monday = 1 .. Sunday = 7
IsoWeekday(y, m, d) == Weekday(y, m, d) + 1

\* The field checks of datetime.__new__ (ValueError when one fails).
ValidFields(y, m, d, H, M, S, us) ==
    /\ y \in MINYEAR..MAXYEAR
    /\ m \in 1..12
    /\ d >= 1 /\ d <= DaysInMonth(y, m)
    /\ H \in 0..23
    /\ M \in 0..59
    /\ S \in 0..59
    /\ us >= 0 /\ us <= 999999


(***************************************************************************)
(* Timezones.  A tzinfo is named by a string; "None" is the absent tzinfo. *)
(* parser.get_timezone resolves the constructor's argument.  The zone      *)
(* database is outside the repository: three tzinfo objects stand for it,  *)
(* the fixed UTC zone, a fixed-offset zone, and Europe/London, whose       *)
(* offset is zero in winter and one hour in summer.  Europe/London comes   *)
(* in the two implementations a caller can hand to Zulu: the tzinfo that   *)
(* dateutil's gettz builds for the name, and a zoneinfo.ZoneInfo object    *)
(* passed as it is.  They differ only on wall times that do not exist.     *)
(***************************************************************************)
UTC == "UTC"
LOCAL_TZ == "local"
NoTz == "None"
London == "Europe/London"
LondonZI == "ZoneInfo(Europe/London)"
FixedWest == "UTC-05:00"

\* The zone that tzlocal() denotes on the modelled system.
LocalZone == London

\* tzinfo objects with a fixed offset, in minutes: those that
\* iso8601.parse_date builds for a parsed offset, and one whose utcoffset()
\* is out of range.
BadTz == "tzinfo(+25:00)"

OffsetTable ==
    << <<"+00:00", 0>>, <<"-04:00", 0 - 240>>, <<"+01:00", 60>>,
       <<"-01:00", 0 - 60>>, <<"+01:39", 99>>, <<"-23:59", 0 - 1439>>,
       <<"+23:59", 1439>>, <<BadTz, 1500>> >>

FixedOffsets == {OffsetTable[i][1] : i \in 1..Len(OffsetTable)}

OffsetOf(tz) ==
    OffsetTable[CHOOSE i \in 1..Len(OffsetTable) : OffsetTable[i][1] = tz][2]

KnownZones == {UTC, London, LondonZI, FixedWest} \cup FixedOffsets

\* parser.get_timezone: None -> UTC, "local" -> tzlocal(), a name -> gettz(name)
\* (an unknown name raises ValueError), a tzinfo object is returned as it is.
get_timezone(tz) ==
    IF tz = NoTz THEN UTC
    ELSE IF tz = LOCAL_TZ THEN LocalZone
    ELSE IF tz \in KnownZones THEN tz
    ELSE "ValueError"

\* Last Sunday of a 31-day month (March, October).
LastSunday(y, m) == 31 - ((Weekday(y, m, 31) + 1) % 7)

\* British Summer Time on the wall clock of a London tzinfo, by the rule in
\* force since 1996 (earlier years read as winter time).  Wall times inside
\* the hour repeated on the last Sunday of October (01:00-02:00) read as
\* summer time (fold = 0).  Wall times inside the hour skipped on the last
\* Sunday of March (01:00-02:00) read as summer time from hour springHour
\* on: 1 for the dateutil tzinfo, which places them after the transition,
\* 2 for ZoneInfo, which keeps the winter offset as PEP 495 prescribes.
LondonSummer(y, m, d, H, springHour) ==
    /\ y >= 1996
    /\ \/ m > 3
       \/ m = 3 /\ (d > LastSunday(y, 3)
                      \/ (d = LastSunday(y, 3) /\ H >= springHour))
    /\ \/ m < 10
       \/ m = 10 /\ (d < LastSunday(y, 10) \/ (d = LastSunday(y, 10) /\ H < 2))

\* dt.utcoffset() in minutes, for a datetime with fields f and tzinfo f.tzinfo
UtcOffset(f) ==
    IF f.tzinfo = London
    THEN (IF LondonSummer(f.year, f.month, f.day, f.hour, 1) THEN 60 ELSE 0)
    ELSE IF f.tzinfo = LondonZI
    THEN (IF LondonSummer(f.year, f.month, f.day, f.hour, 2) THEN 60 ELSE 0)
    ELSE IF f.tzinfo = FixedWest THEN 0 - 300
    ELSE IF f.tzinfo \in FixedOffsets THEN OffsetOf(f.tzinfo)
    ELSE 0

(***************************************************************************)
(* timedelta: (days, seconds, microseconds) with 0 <= seconds < 86400 and  *)
(* 0 <= microseconds < 1000000, as datetime.timedelta normalises it.       *)
(***************************************************************************)
Timedelta(days, hours, minutes, seconds, microseconds) ==
    LET s1 == hours * 3600 + minutes * 60 + seconds + (microseconds \div 1000000)
    IN  [days         |-> days + (s1 \div 86400),
         seconds      |-> s1 % 86400,
         microseconds |-> microseconds % 1000000]

MkDT(y, m, d, H, M, S, us, tz) ==
    [year |-> y, month |-> m, day |-> d, hour |-> H, minute |-> M,
     second |-> S, microsecond |-> us, tzinfo |-> tz]

\* datetime.__add__(timedelta): arithmetic on the wall clock of the stored
\* tzinfo, which is kept; OverflowError outside 0001-01-01 .. 9999-12-31.
WithTime(ymd, secs, us, tz) ==
    MkDT(ymd.year, ymd.month, ymd.day,
         secs \div 3600, (secs % 3600) \div 60, secs % 60, us, tz)

FromOrdinal(days, secs, us, tz) ==
    IF days < 1 \/ days > MAXORDINAL
    THEN Err("OverflowError")
    ELSE WithTime(Ord2Ymd(days), secs, us, tz)

CarrySeconds(f, td, s1, us1) ==
    FromOrdinal(Ymd2Ord(f.year, f.month, f.day) + td.days + (s1 \div 86400),
                s1 % 86400, us1 % 1000000, f.tzinfo)

DatetimeAdd(f, td) ==
    CarrySeconds(f, td,
                 f.hour * 3600 + f.minute * 60 + f.second + td.seconds
                     + ((f.microsecond + td.microseconds) \div 1000000),
                 f.microsecond + td.microseconds)

\* datetime.astimezone(UTC) of an aware datetime: subtract the offset.
WithTz(r, tz) == IF IsErr(r) THEN r ELSE [r EXCEPT !.tzinfo = tz]

AsUTC(f) == WithTz(DatetimeAdd(f, Timedelta(0, 0, 0 - UtcOffset(f), 0, 0)), UTC)

(***************************************************************************)
(* Zulu.__new__ (zulu.py:84-142) and Zulu.fromdatetime (zulu.py:187-205)   *)
(***************************************************************************)
\* Zulu.__new__ without the conversion to UTC: the fields and the tzinfo are
\* stored as given.
ZuluNew_NoConversion(y, m, d, H, M, S, us, tzinfo) ==
    IF tzinfo # NoTz
    THEN LET tz == get_timezone(tzinfo)
         IN  IF tz = "ValueError" THEN Err("ValueError")
             ELSE IF ~ValidFields(y, m, d, H, M, S, us) THEN Err("ValueError")
             ELSE MkDT(y, m, d, H, M, S, us, tz)
    ELSE IF ~ValidFields(y, m, d, H, M, S, us) THEN Err("ValueError")
         ELSE MkDT(y, m, d, H, M, S, us, UTC)

ZuluNew(y, m, d, H, M, S, us, tzinfo) ==
    IF tzinfo # NoTz
    THEN LET tz == get_timezone(tzinfo)
         IN  IF tz = "ValueError" THEN Err("ValueError")
             ELSE IF ~ValidFields(y, m, d, H, M, S, us) THEN Err("ValueError")
             ELSE LET dt == MkDT(y, m, d, H, M, S, us, tz)
                  IN  IF UtcOffset(dt) # 0 THEN AsUTC(dt) ELSE dt
    ELSE IF ~ValidFields(y, m, d, H, M, S, us) THEN Err("ValueError")
         ELSE MkDT(y, m, d, H, M, S, us, UTC)

fromdatetime(dt) ==
    IF IsErr(dt) THEN dt
    ELSE ZuluNew(dt.year, dt.month, dt.day, dt.hour, dt.minute, dt.second,
                 dt.microsecond, dt.tzinfo)


(***************************************************************************)
(* dateutil.relativedelta as Zulu.shift uses it (zulu.py:698-707): the     *)
(* keyword units, normalised by sign, then added to a datetime.            *)
(***************************************************************************)
NoUnits ==
    [years |-> 0, months |-> 0, weeks |-> 0, days |-> 0, hours |-> 0,
     minutes |-> 0, seconds |-> 0, microseconds |-> 0]

Sign(x) == IF x < 0 THEN 0 - 1 ELSE 1

\* Quotient and remainder of x by n, both carrying the sign of x.
QuotS(x, n) == Sign(x) * ((x * Sign(x)) \div n)
RemS(x, n) == Sign(x) * ((x * Sign(x)) % n)

\* relativedelta(**u): weeks fold into days, then each unit carries into
\* the next larger one (microseconds -> seconds -> minutes -> hours -> days,
\* months -> years).
relativedelta(u) ==
    LET us == RemS(u.microseconds, 1000000)
        s0 == u.seconds + QuotS(u.microseconds, 1000000)
        s  == RemS(s0, 60)
        m0 == u.minutes + QuotS(s0, 60)
        m  == RemS(m0, 60)
        h0 == u.hours + QuotS(m0, 60)
        h  == RemS(h0, 24)
        d  == u.days + u.weeks * 7 + QuotS(h0, 24)
        mo == RemS(u.months, 12)
        y  == u.years + QuotS(u.months, 12)
    IN  [years |-> y, months |-> mo, days |-> d, hours |-> h, minutes |-> m,
         seconds |-> s, microseconds |-> us]

\* Zulu.replace (zulu.py:806-847): r maps the replaced attribute names to
\* their new values; every other attribute, tzinfo included, is taken from
\* the receiver, and the Zulu constructor builds the result.
Attr(v, r, name) == IF name \in DOMAIN r THEN r[name] ELSE v[name]

replace(v, r) ==
    ZuluNew(Attr(v, r, "year"), Attr(v, r, "month"), Attr(v, r, "day"),
            Attr(v, r, "hour"), Attr(v, r, "minute"), Attr(v, r, "second"),
            Attr(v, r, "microsecond"), Attr(v, r, "tzinfo"))

\* Zulu.__add__ with a timedelta (zulu.py:1199-1204)
AddTimedelta(v, td) == fromdatetime(DatetimeAdd(v, td))

\* Zulu.__add__ with a relativedelta (zulu.py:1201-1204), i.e.
\* relativedelta.__add__(self): years and months first, the day clamped to
\* the length of the target month, then the rest as one timedelta.
AddRest(base, rd) ==
    IF IsErr(base) THEN base
    ELSE fromdatetime(
             AddTimedelta(base,
                 Timedelta(rd.days, rd.hours, rd.minutes, rd.seconds,
                           rd.microseconds)))

ClampDay(v, year, month, rd) ==
    AddRest(replace(v, [year |-> year, month |-> month,
                        day |-> IF v.day < DaysInMonth(year, month)
                                THEN v.day ELSE DaysInMonth(year, month)]),
            rd)

AddRelativedelta(v, rd) ==
    LET m0 == v.month + rd.months
    IN  ClampDay(v,
                 v.year + rd.years
                     + (IF m0 > 12 THEN 1 ELSE IF m0 < 1 THEN 0 - 1 ELSE 0),
                 IF m0 > 12 THEN m0 - 12 ELSE IF m0 < 1 THEN m0 + 12 ELSE m0,
                 rd)

\* Zulu.shift with keyword units (zulu.py:664-709)
shift(v, u) == fromdatetime(AddRelativedelta(v, relativedelta(u)))

\* Zulu.add with keyword units (zulu.py:711-756)
add(v, u) == shift(v, u)

\* Zulu.subtract that forgets to negate the months.
subtract_MonthsNotNegated(v, u) ==
    shift(v, [years |-> 0 - u.years, months |-> u.months,
              weeks |-> 0 - u.weeks, days |-> 0 - u.days,
              hours |-> 0 - u.hours, minutes |-> 0 - u.minutes,
              seconds |-> 0 - u.seconds,
              microseconds |-> 0 - u.microseconds])

\* Zulu.subtract with keyword units (zulu.py:758-804)
subtract(v, u) ==
    shift(v, [years |-> 0 - u.years, months |-> 0 - u.months,
              weeks |-> 0 - u.weeks, days |-> 0 - u.days,
              hours |-> 0 - u.hours, minutes |-> 0 - u.minutes,
              seconds |-> 0 - u.seconds,
              microseconds |-> 0 - u.microseconds])

(***************************************************************************)
(* Time frames (zulu.py:50-53, 849-1097)                                   *)
(***************************************************************************)
\* validate_frame with "week" left out of the accepted names.
validate_frame_WithoutWeek(frame) == frame \in (TIME_FRAMES \ {"week"})

\* validate_frame (zulu.py:50-53) passes for the names in TIME_FRAMES and
\* raises FrameError, a ValueError with this message, for every other name.
validate_frame(frame) == frame \in TIME_FRAMES

FrameError == Err("ValueError: Time frame must be one of ...")

start_of_century(v) ==
    replace(v, [year |-> v.year - (v.year % 100), month |-> 1, day |-> 1,
                hour |-> 0, minute |-> 0, second |-> 0, microsecond |-> 0])

start_of_decade(v) ==
    replace(v, [year |-> v.year - (v.year % 10), month |-> 1, day |-> 1,
                hour |-> 0, minute |-> 0, second |-> 0, microsecond |-> 0])

start_of_year(v) ==
    replace(v, [month |-> 1, day |-> 1, hour |-> 0, minute |-> 0,
                second |-> 0, microsecond |-> 0])

start_of_month(v) ==
    replace(v, [day |-> 1, hour |-> 0, minute |-> 0, second |-> 0,
                microsecond |-> 0])

ShiftOrErr(v, u) == IF IsErr(v) THEN v ELSE shift(v, u)

start_of_week(v) ==
    ShiftOrErr(replace(v, [hour |-> 0, minute |-> 0, second |-> 0,
                           microsecond |-> 0]),
               [NoUnits EXCEPT
                    !.days = 0 - IsoWeekday(v.year, v.month, v.day) + 1])

start_of_day(v) ==
    replace(v, [hour |-> 0, minute |-> 0, second |-> 0, microsecond |-> 0])

start_of_hour(v) == replace(v, [minute |-> 0, second |-> 0, microsecond |-> 0])

start_of_minute(v) == replace(v, [second |-> 0, microsecond |-> 0])

start_of_second(v) == replace(v, [microsecond |-> 0])

\* The dispatch getattr(self, "start_of_" + frame)() after validate_frame.
StartOfFrame(v, frame) ==
    CASE frame = "century" -> start_of_century(v)
      [] frame = "decade"  -> start_of_decade(v)
      [] frame = "year"    -> start_of_year(v)
      [] frame = "month"   -> start_of_month(v)
      [] frame = "week"    -> start_of_week(v)
      [] frame = "day"     -> start_of_day(v)
      [] frame = "hour"    -> start_of_hour(v)
      [] frame = "minute"  -> start_of_minute(v)
      [] frame = "second"  -> start_of_second(v)

\* The keyword units of the one shift that end_of_<frame>(count) makes.
EndShiftUnits(frame, count) ==
    CASE frame = "century" -> [NoUnits EXCEPT !.years = count * 100, !.microseconds = 0 - 1]
      [] frame = "decade"  -> [NoUnits EXCEPT !.years = count * 10, !.microseconds = 0 - 1]
      [] frame = "year"    -> [NoUnits EXCEPT !.years = count, !.microseconds = 0 - 1]
      [] frame = "month"   -> [NoUnits EXCEPT !.months = count, !.microseconds = 0 - 1]
      [] frame = "week"    -> [NoUnits EXCEPT !.weeks = count, !.microseconds = 0 - 1]
      [] frame = "day"     -> [NoUnits EXCEPT !.days = count, !.microseconds = 0 - 1]
      [] frame = "hour"    -> [NoUnits EXCEPT !.hours = count, !.microseconds = 0 - 1]
      [] frame = "minute"  -> [NoUnits EXCEPT !.minutes = count, !.microseconds = 0 - 1]
      [] frame = "second"  -> [NoUnits EXCEPT !.seconds = count, !.microseconds = 0 - 1]

\* end_of_century .. end_of_second (zulu.py:949-1056)
EndOfFrame(v, frame, count) ==
    ShiftOrErr(StartOfFrame(v, frame), EndShiftUnits(frame, count))

\* Zulu.start_of (zulu.py:1058-1069)
start_of(v, frame) ==
    IF ~validate_frame(frame) THEN FrameError ELSE StartOfFrame(v, frame)

\* Zulu.end_of (zulu.py:1071-1083)
end_of(v, frame, count) ==
    IF ~validate_frame(frame) THEN FrameError
    ELSE EndOfFrame(v, frame, count)

\* Zulu.span (zulu.py:1085-1097): the pair, or the first error raised.
Pair(s, e) ==
    IF IsErr(s) THEN s ELSE IF IsErr(e) THEN e ELSE [first |-> s, second |-> e]

span(v, frame, count) == Pair(start_of(v, frame), end_of(v, frame, count))


(***************************************************************************)
(* Comparison of two aware datetimes: by their UTC instants.               *)
(***************************************************************************)
Fields(u) ==
    <<u.year, u.month, u.day, u.hour, u.minute, u.second, u.microsecond>>

InstantKey(a) == Fields(IF UtcOffset(a) = 0 THEN a ELSE AsUTC(a))

RECURSIVE LexLess(_, _, _)
LexLess(p, q, i) ==
    IF i > Len(p) THEN FALSE
    ELSE IF p[i] # q[i] THEN p[i] < q[i]
    ELSE LexLess(p, q, i + 1)

Before(a, b) == LexLess(InstantKey(a), InstantKey(b), 1)
SameInstant(a, b) == InstantKey(a) = InstantKey(b)
NotAfter(a, b) == Before(a, b) \/ SameInstant(a, b)

\* The wall time of f lies in the hour the London clock skips on the last
\* Sunday of March, or in the hour it repeats on the last Sunday of October.
InSkippedHour(f) ==
    f.year >= 1996 /\ f.month = 3 /\ f.day = LastSunday(f.year, 3) /\ f.hour = 1

InRepeatedHour(f) ==
    f.year >= 1996 /\ f.month = 10 /\ f.day = LastSunday(f.year, 10)
        /\ f.hour = 1

\* f.utcoffset() != f.replace(fold=not f.fold).utcoffset(): ZoneInfo reads a
\* skipped wall time by its fold, both London tzinfos a repeated one.
FoldMatters(f) ==
    \/ f.tzinfo = LondonZI /\ InSkippedHour(f)
    \/ f.tzinfo \in {London, LondonZI} /\ InRepeatedHour(f)

\* a == b, which Zulu inherits from datetime: with one tzinfo the fields are
\* compared, with two the instants, and then a value whose offset depends
\* on its fold equals nothing (PEP 495).
__eq__(a, b) ==
    IF a.tzinfo = b.tzinfo THEN Fields(a) = Fields(b)
    ELSE ~FoldMatters(a) /\ ~FoldMatters(b) /\ SameInstant(a, b)

\* Zulu.min and Zulu.max (zulu.py:1230-1234)
ZuluMin == ZuluNew(1, 1, 1, 0, 0, 0, 0, NoTz)
ZuluMax == ZuluNew(9999, 12, 31, 23, 59, 59, 999999, NoTz)

(***************************************************************************)
(* Delta.fromtimedelta (delta.py:71-79): cls(seconds=delta.total_seconds()).*)
(* total_seconds() is a float, the double nearest to the exact number of   *)
(* seconds; the timedelta constructor splits a float into its whole        *)
(* seconds and its fraction, multiplies the fraction by 10^6 and rounds    *)
(* that to a whole number of microseconds, half to even.  A double holding *)
(* |x| seconds with 2^k <= |x| < 2^(k+1) has 52 - k fraction bits.  Below  *)
(* 2^33 seconds it has 20 or more: the rounding error stays under half a   *)
(* microsecond and the microseconds come back as they were.                *)
(***************************************************************************)
\* 2^33, 2^34, ..., 2^46 seconds as <<days, seconds>>
BinadeStart ==
    << <<99420, 46592>>, <<198841, 6784>>, <<397682, 13568>>,
       <<795364, 27136>>, <<1590728, 54272>>, <<3181457, 22144>>,
       <<6362914, 44288>>, <<12725829, 2176>>, <<25451658, 4352>>,
       <<50903316, 8704>>, <<101806632, 17408>>, <<203613264, 34816>>,
       <<407226528, 69632>>, <<814453057, 52864>> >>

Reaches(days, secs, b) == days > b[1] \/ (days = b[1] /\ secs >= b[2])

\* Fraction bits of the double nearest to days * 86400 + secs (+ fraction).
FractionBits(days, secs) ==
    20 - Cardinality({i \in 1..Len(BinadeStart) :
                         Reaches(days, secs, BinadeStart[i])})

Pow2(n) == IF n = 0 THEN 1 ELSE IF n = 1 THEN 2 ELSE IF n = 2 THEN 4
           ELSE IF n = 3 THEN 8 ELSE IF n = 4 THEN 16 ELSE IF n = 5 THEN 32
           ELSE IF n = 6 THEN 64 ELSE IF n = 7 THEN 128 ELSE IF n = 8 THEN 256
           ELSE IF n = 9 THEN 512 ELSE IF n = 10 THEN 1024
           ELSE IF n = 11 THEN 2048 ELSE IF n = 12 THEN 4096
           ELSE IF n = 13 THEN 8192 ELSE 16384

\* n / d rounded to the nearest integer, a tie going to the even one
\* (n >= 0, d > 0); whole is what the quotient is added to.
RoundHalfEven(whole, n, d) ==
    IF 2 * (n % d) > d THEN (n \div d) + 1
    ELSE IF 2 * (n % d) = d /\ (whole + (n \div d)) % 2 = 1 THEN (n \div d) + 1
    ELSE n \div d

\* The fraction us / 10^6 rounded to bits fraction bits, as a count of
\* 2^-bits (10^6 = 64 * 15625; e = 2^(bits - 6)).
ToFraction(us, e) ==
    (us \div 15625) * e + RoundHalfEven(0, (us % 15625) * e, 15625)

\* That fraction times 10^6, rounded to whole microseconds.
ToMicroseconds(j, e) ==
    (j \div e) * 15625
        + RoundHalfEven((j \div e) * 15625, (j % e) * 15625, e)

\* timedelta(seconds=float(total_seconds)) of a timedelta that is >= 0.
FloatRoundTrip(td) ==
    IF FractionBits(td.days, td.seconds) >= 20 THEN td
    ELSE Timedelta(td.days, 0, 0, td.seconds,
                   ToMicroseconds(
                       ToFraction(td.microseconds,
                                  Pow2(FractionBits(td.days, td.seconds) - 6)),
                       Pow2(FractionBits(td.days, td.seconds) - 6)))

NegTd(td) == Timedelta(0 - td.days, 0, 0, 0 - td.seconds, 0 - td.microseconds)

AsDelta(td) ==
    [days |-> td.days, seconds |-> td.seconds,
     microseconds |-> td.microseconds, delta |-> TRUE]

IsDelta(x) == "delta" \in DOMAIN x

\* timedelta.__new__: OverflowError beyond 999999999 days.
MAXDAYS == 999999999

TdRange(td) ==
    IF td.days > MAXDAYS \/ td.days < 0 - MAXDAYS THEN Err("OverflowError")
    ELSE td

NewDelta(td) == IF IsErr(TdRange(td)) THEN TdRange(td) ELSE AsDelta(td)

\* Delta.fromtimedelta (delta.py:71-79)
fromtimedelta(delta) ==
    IF delta.days >= 0 THEN NewDelta(FloatRoundTrip(delta))
    ELSE NewDelta(NegTd(FloatRoundTrip(NegTd(delta))))

(***************************************************************************)
(* The arithmetic of timedelta that Delta inherits, on (days, seconds,     *)
(* microseconds); every result is a plain timedelta.  A scalar k is an     *)
(* integer.                                                                *)
(***************************************************************************)
Abs(n) == IF n < 0 THEN 0 - n ELSE n

TdZero == Timedelta(0, 0, 0, 0, 0)

TdPlus(a, b) ==
    Timedelta(a.days + b.days, 0, 0, a.seconds + b.seconds,
              a.microseconds + b.microseconds)

TdMinus(a, b) ==
    Timedelta(a.days - b.days, 0, 0, a.seconds - b.seconds,
              a.microseconds - b.microseconds)

TdLess(a, b) ==
    \/ a.days < b.days
    \/ a.days = b.days /\ a.seconds < b.seconds
    \/ a.days = b.days /\ a.seconds = b.seconds
           /\ a.microseconds < b.microseconds

TdAdd(a, b) == TdRange(TdPlus(a, b))

TdSub(a, b) == TdRange(TdMinus(a, b))

TdNeg(a) == TdRange(NegTd(a))

TdPos(a) == TdPlus(a, TdZero)

TdAbs(a) == IF a.days < 0 THEN TdNeg(a) ELSE TdPos(a)

TdMul(a, k) ==
    IF k = 0 THEN TdZero
    ELSE IF a.days > (MAXDAYS + 1) \div Abs(k)
            \/ a.days < 0 - ((MAXDAYS + 1) \div Abs(k)) - 1
    THEN Err("OverflowError")
    ELSE TdRange(Timedelta(a.days * k, 0, 0, a.seconds * k,
                           a.microseconds * k))

\* a / k (nearest, a tie to even) and a // k (floor) for k > 0, by long
\* division over days, seconds and microseconds.
DivMicroseconds(qd, qs, us, k, nearest) ==
    Timedelta(qd, 0, 0, qs,
              IF nearest THEN RoundHalfEven(0, us, k) ELSE us \div k)

DivSeconds(qd, secs, us, k, nearest) ==
    DivMicroseconds(qd, secs \div k, (secs % k) * 1000000 + us, k, nearest)

DivPositive(a, k, nearest) ==
    DivSeconds(a.days \div k, (a.days % k) * 86400 + a.seconds,
               a.microseconds, k, nearest)

TdDiv(a, k, nearest) ==
    IF k = 0 THEN Err("ZeroDivisionError")
    ELSE IF k > 0 THEN TdRange(DivPositive(a, k, nearest))
    ELSE TdRange(DivPositive(NegTd(a), 0 - k, nearest))

TdTruediv(a, k) == TdDiv(a, k, TRUE)

TdFloordiv(a, k) == TdDiv(a, k, FALSE)

\* divmod of two timedeltas, a >= 0 and b > 0: <<quotient, remainder>>,
\* one hexadecimal digit of the quotient at a time.
RECURSIVE Digit(_, _, _)
Digit(q, r, b) ==
    IF TdLess(r, b) THEN <<q, r>> ELSE Digit(q + 1, TdMinus(r, b), b)

Times16(b) ==
    Timedelta(b.days * 16, 0, 0, b.seconds * 16, b.microseconds * 16)

NextDigit(h, b) == Digit(16 * h[1], h[2], b)

RECURSIVE DivModPositive(_, _)
DivModPositive(a, b) ==
    IF TdLess(a, b) THEN <<0, a>>
    ELSE IF b.days > 60000000 THEN Digit(0, a, b)
    ELSE NextDigit(DivModPositive(a, Times16(b)), b)

\* divmod with a < 0 and b > 0, out of divmod(-a, b): the quotient is
\* floored and the remainder takes the sign of b.
FloorNegative(h, b) ==
    IF h[2] = TdZero THEN <<0 - h[1], TdZero>>
    ELSE <<0 - h[1] - 1, TdMinus(b, h[2])>>

DivModUp(a, b) ==
    IF a.days >= 0 THEN DivModPositive(a, b)
    ELSE FloorNegative(DivModPositive(NegTd(a), b), b)

\* The tuple (quotient, remainder) that divmod returns.
Tuple(q, r) == [quotient |-> q, remainder |-> r]

DivModSigned(a, b) ==
    IF b = TdZero THEN Err("ZeroDivisionError")
    ELSE IF b.days >= 0 THEN Tuple(DivModUp(a, b)[1], DivModUp(a, b)[2])
    ELSE Tuple(DivModUp(NegTd(a), NegTd(b))[1],
               NegTd(DivModUp(NegTd(a), NegTd(b))[2]))

TdDivmod(a, b) == DivModSigned(TdPos(a), TdPos(b))

TdMod(a, b) ==
    IF IsErr(TdDivmod(a, b)) THEN TdDivmod(a, b)
    ELSE TdDivmod(a, b).remainder

(***************************************************************************)
(* Delta's operators (delta.py:11-41, 131-143): the methods inherited from *)
(* timedelta, those in the list rebound through the decorator _asdelta.    *)
(***************************************************************************)
IsTimedelta(x) == "days" \in DOMAIN x

IsTuple(x) == "quotient" \in DOMAIN x

\* tuple(...) over the items of divmod's result: the quotient is an int
\* and stays, the remainder is a timedelta.
AsDeltaItems(q, r) == IF IsErr(r) THEN r ELSE Tuple(q, r)

_asdelta(result) ==
    IF IsErr(result) THEN result
    ELSE IF IsTimedelta(result) THEN fromtimedelta(result)
    ELSE IF IsTuple(result)
    THEN AsDeltaItems(result.quotient, fromtimedelta(result.remainder))
    ELSE result

\* timedelta.__<name>__(self, other); other is a Delta or a scalar.
TimedeltaMethod(name, self, other) ==
    CASE name = "__add__" -> TdAdd(self, other)
      [] name = "__radd__" -> TdAdd(other, self)
      [] name = "__sub__" -> TdSub(self, other)
      [] name = "__mul__" -> TdMul(self, other)
      [] name = "__rmul__" -> TdMul(self, other)
      [] name = "__truediv__" -> TdTruediv(self, other)
      [] name = "__floordiv__" -> TdFloordiv(self, other)
      [] name = "__pos__" -> TdPos(self)
      [] name = "__neg__" -> TdNeg(self)
      [] name = "__abs__" -> TdAbs(self)
      [] name = "__mod__" -> TdMod(self, other)
      [] name = "__divmod__" -> TdDivmod(self, other)

Rebound ==
    {"__add__", "__radd__", "__sub__", "__mul__", "__rmul__", "__floordiv__",
     "__pos__", "__neg__", "__abs__", "__truediv__", "__mod__", "__divmod__"}

DeltaMethod(name, self, other) ==
    IF name \in Rebound THEN _asdelta(TimedeltaMethod(name, self, other))
    ELSE TimedeltaMethod(name, self, other)

(***************************************************************************)
(* Zulu.__add__ and Zulu.__sub__ (zulu.py:1186-1227).  An operand is a     *)
(* value with its class: a Zulu, a datetime, a timedelta or a Delta.       *)
(***************************************************************************)
Operand(cls, v) == [cls |-> cls, v |-> v]

IsDuration(x) == x.cls \in {"timedelta", "Delta"}

\* datetime.__sub__(datetime): the difference of the wall clocks when both
\* carry the same tzinfo object, else of the UTC instants.
DatetimeSub(a, b) ==
    Timedelta(Ymd2Ord(a.year, a.month, a.day) - Ymd2Ord(b.year, b.month, b.day),
              a.hour - b.hour,
              (a.minute - b.minute)
                  + (IF a.tzinfo = b.tzinfo THEN 0
                     ELSE UtcOffset(b) - UtcOffset(a)),
              a.second - b.second,
              a.microsecond - b.microsecond)

SubZulu(self, other) ==
    IF IsErr(other) THEN other ELSE fromtimedelta(DatetimeSub(self, other))

__add__(self, other) ==
    IF ~IsDuration(other) THEN Err("TypeError")
    ELSE fromdatetime(DatetimeAdd(self, other.v))

__sub__(self, other) ==
    IF IsDuration(other) THEN fromdatetime(DatetimeAdd(self, NegTd(other.v)))
    ELSE IF other.cls = "Zulu" THEN SubZulu(self, other.v)
    ELSE SubZulu(self, fromdatetime(other.v))

(***************************************************************************)
(* Text: a string is the sequence of its characters.  datetime.isoformat   *)
(* (Zulu.__str__, zulu.py:1173-1175) writes one, iso8601.parse_date        *)
(* (parser.py:153) reads one with its regular expression.                  *)
(***************************************************************************)
DigitChars == <<"0", "1", "2", "3", "4", "5", "6", "7", "8", "9">>

IsDigit(c) == \E d \in 1..10 : DigitChars[d] = c

DigitVal(c) == (CHOOSE d \in 1..10 : DigitChars[d] = c) - 1

Pow10(n) ==
    IF n = 0 THEN 1 ELSE IF n = 1 THEN 10 ELSE IF n = 2 THEN 100
    ELSE IF n = 3 THEN 1000 ELSE IF n = 4 THEN 10000
    ELSE IF n = 5 THEN 100000 ELSE 1000000

\* "%0<width>d" % n
Pad(n, width) ==
    [i \in 1..width |-> DigitChars[((n \div Pow10(width - i)) % 10) + 1]]

\* The UTC offset as isoformat writes it: sign, hours, ":", minutes.
OffsetText(minutes) ==
    <<IF minutes < 0 THEN "-" ELSE "+">> \o Pad(Abs(minutes) \div 60, 2)
        \o <<":">> \o Pad(Abs(minutes) % 60, 2)

\* datetime.isoformat() of an aware datetime
isoformat(v) ==
    Pad(v.year, 4) \o <<"-">> \o Pad(v.month, 2) \o <<"-">> \o Pad(v.day, 2)
        \o <<"T">> \o Pad(v.hour, 2) \o <<":">> \o Pad(v.minute, 2)
        \o <<":">> \o Pad(v.second, 2)
        \o (IF v.microsecond # 0 THEN <<".">> \o Pad(v.microsecond, 6)
            ELSE <<>>)
        \o OffsetText(UtcOffset(v))

At(s, i) == IF i >= 1 /\ i <= Len(s) THEN s[i] ELSE ""

Digit1(s, i) == IsDigit(At(s, i))
Digit2(s, i) == IsDigit(At(s, i)) /\ IsDigit(At(s, i + 1))
Num1(s, i) == DigitVal(s[i])
Num2(s, i) == 10 * DigitVal(s[i]) + DigitVal(s[i + 1])

\* The first position at or after i that holds no digit.
RECURSIVE DigitsEnd(_, _)
DigitsEnd(s, i) == IF Digit1(s, i) THEN DigitsEnd(s, i + 1) ELSE i

\* int(Decimal("0." + digits) * 1000000): the first six digits of the
\* fraction s[i..j-1], padded with zeros.
RECURSIVE Fraction(_, _, _, _)
Fraction(s, i, j, n) ==
    IF n = 0 THEN 0
    ELSE (IF i < j THEN DigitVal(s[i]) * Pow10(n - 1) ELSE 0)
             + Fraction(s, i + 1, j, n - 1)

\* The groups of ISO8601_REGEX matched so far; a group that did not match
\* is absent (0 - 1), as in groupdict().
Absent == 0 - 1

NoMatch == [pos |-> 0]

Groups0(s) ==
    [pos |-> 5, year |-> 1000 * Num1(s, 1) + 100 * Num1(s, 2) + Num2(s, 3),
     month |-> Absent, day |-> Absent, hour |-> Absent, minute |-> Absent,
     second |-> Absent, fraction |-> Absent, zone |-> "",
     tz_hour |-> 0, tz_minute |-> 0]

Give(ok, g) == IF ok THEN <<g>> ELSE <<>>

\* The ways a group can match at g.pos, in the order the regular
\* expression tries them; stage 1 is the month, 2 the day, 3 the separator
\* and the hour, 4 the minute, 5 the second with its fraction, 6 the
\* timezone.  An optional group's last way is to match nothing.
MonthWays(s, g) ==
    Give(At(s, g.pos) = "-" /\ Digit2(s, g.pos + 1),
         [g EXCEPT !.pos = g.pos + 3, !.month = Num2(s, g.pos + 1)])
    \o Give(At(s, g.pos) = "-" /\ Digit1(s, g.pos + 1),
            [g EXCEPT !.pos = g.pos + 2, !.month = Num1(s, g.pos + 1)])
    \o Give(Digit2(s, g.pos) /\ g.pos + 2 <= Len(s),
            [g EXCEPT !.pos = g.pos + 2, !.month = Num2(s, g.pos)])
    \o <<g>>

DayWays(s, g) ==
    IF g.month = Absent THEN <<g>>
    ELSE Give(At(s, g.pos) = "-" /\ Digit2(s, g.pos + 1),
              [g EXCEPT !.pos = g.pos + 3, !.day = Num2(s, g.pos + 1)])
         \o Give(At(s, g.pos) = "-" /\ Digit1(s, g.pos + 1),
                 [g EXCEPT !.pos = g.pos + 2, !.day = Num1(s, g.pos + 1)])
         \o Give(Digit2(s, g.pos),
                 [g EXCEPT !.pos = g.pos + 2, !.day = Num2(s, g.pos)])
         \o <<g>>

HourWays(s, g) ==
    IF g.day = Absent THEN <<g>>
    ELSE Give(At(s, g.pos) \in {" ", "T"} /\ Digit2(s, g.pos + 1),
              [g EXCEPT !.pos = g.pos + 3, !.hour = Num2(s, g.pos + 1)])
         \o <<g>>

\* Where the group starts after an optional ":".
AfterColon(s, i) == IF At(s, i) = ":" THEN i + 1 ELSE i

MinuteAt(s, g, i) ==
    Give(Digit2(s, i), [g EXCEPT !.pos = i + 2, !.minute = Num2(s, i)])

MinuteWays(s, g) ==
    IF g.hour = Absent THEN <<g>>
    ELSE MinuteAt(s, g, AfterColon(s, g.pos)) \o <<g>>

\* The fraction after the seconds that end before position i.
WithFraction(s, g, i) ==
    IF At(s, i) \in {".", ","} /\ Digit1(s, i + 1)
    THEN [g EXCEPT !.pos = DigitsEnd(s, i + 1),
                   !.fraction = Fraction(s, i + 1, DigitsEnd(s, i + 1), 6)]
    ELSE [g EXCEPT !.pos = i]

SecondAt(s, g, i) ==
    Give(Digit2(s, i), WithFraction(s, [g EXCEPT !.second = Num2(s, i)], i + 2))
    \o Give(Digit1(s, i),
            WithFraction(s, [g EXCEPT !.second = Num1(s, i)], i + 1))

SecondWays(s, g) ==
    IF g.hour = Absent THEN <<g>>
    ELSE SecondAt(s, g, AfterColon(s, g.pos)) \o <<g>>

ZoneMinuteAt(s, g, i) ==
    Give(Digit2(s, i), [g EXCEPT !.pos = i + 2, !.tz_minute = Num2(s, i)])

ZoneHour(s, g) ==
    [g EXCEPT !.pos = g.pos + 3, !.zone = s[g.pos],
              !.tz_hour = Num2(s, g.pos + 1)]

ZoneWays(s, g) ==
    IF g.hour = Absent THEN <<g>>
    ELSE Give(At(s, g.pos) = "Z", [g EXCEPT !.pos = g.pos + 1, !.zone = "Z"])
         \o (IF At(s, g.pos) \in {"+", "-"} /\ Digit2(s, g.pos + 1)
             THEN ZoneMinuteAt(s, ZoneHour(s, g), AfterColon(s, g.pos + 3))
                  \o <<[ZoneHour(s, g) EXCEPT
                           !.pos = AfterColon(s, g.pos + 3)]>>
             ELSE <<>>)
         \o <<g>>

Ways(stage, s, g) ==
    CASE stage = 1 -> MonthWays(s, g)
      [] stage = 2 -> DayWays(s, g)
      [] stage = 3 -> HourWays(s, g)
      [] stage = 4 -> MinuteWays(s, g)
      [] stage = 5 -> SecondWays(s, g)
      [] stage = 6 -> ZoneWays(s, g)

\* ISO8601_REGEX.match: the first way through the groups that ends at the
\* end of the text ("$").
RECURSIVE Match(_, _, _)
RECURSIVE FirstOf(_, _, _, _)
FirstOf(stage, s, ways, i) ==
    IF i > Len(ways) THEN NoMatch
    ELSE IF Match(stage + 1, s, ways[i]) # NoMatch
    THEN Match(stage + 1, s, ways[i])
    ELSE FirstOf(stage, s, ways, i + 1)

Match(stage, s, g) ==
    IF stage > 6 THEN (IF g.pos = Len(s) + 1 THEN g ELSE NoMatch)
    ELSE FirstOf(stage, s, Ways(stage, s, g), 1)

\* A value that is a string, and not a number or any other object.
IsText(obj) == obj.cls = "str"

\* iso8601.parse_timezone with default_timezone=None, then FixedOffset:
\* datetime.timezone refuses an offset of 24 hours or more.
OffsetMinutes(g) ==
    IF g.zone = "-" THEN 0 - (60 * g.tz_hour + g.tz_minute)
    ELSE 60 * g.tz_hour + g.tz_minute

FixedOffset(minutes) ==
    OffsetTable[CHOOSE i \in 1..Len(OffsetTable) :
                    OffsetTable[i][2] = minutes][1]

HasOffset(g) == g.zone \in {"+", "-"}

parse_timezone(g) ==
    IF g.zone = "" THEN NoTz
    ELSE IF g.zone = "Z" THEN "+00:00"
    ELSE FixedOffset(OffsetMinutes(g))

Or(value, default) == IF value = Absent THEN default ELSE value

\* datetime(year, ..., tzinfo=tz): ValueError for a field out of range.
Datetime(y, m, d, H, M, S, us, tz) ==
    IF ~ValidFields(y, m, d, H, M, S, us)
    THEN Err("ValueError: field out of range")
    ELSE MkDT(y, m, d, H, M, S, us, tz)

\* The datetime out of the groups; its arguments are evaluated in order,
\* the timezone last.
FromGroups(g) ==
    IF g = NoMatch THEN Err("Unable to parse date string")
    ELSE IF HasOffset(g) /\ Abs(OffsetMinutes(g)) >= 1440
    THEN Err("offset must be a timedelta strictly between -timedelta(hours=24) and timedelta(hours=24)")
    ELSE Datetime(g.year, Or(g.month, 1), Or(g.day, 1), Or(g.hour, 0),
                  Or(g.minute, 0), Or(g.second, 0), Or(g.fraction, 0),
                  parse_timezone(g))

\* iso8601.parse_date(obj, default_timezone=None)
parse_date(obj) ==
    IF ~IsText(obj) THEN Err("expected string or bytes-like object")
    ELSE IF ~(Digit2(obj.v, 1) /\ Digit2(obj.v, 3))
    THEN Err("Unable to parse date string")
    ELSE FromGroups(Match(1, obj.v, Groups0(obj.v)))

(***************************************************************************)
(* parser.parse_datetime and its formats (parser.py:84-159), Zulu.parse    *)
(* (zulu.py:164-185).  An object to parse is a value with its class: a     *)
(* str (its text), a number, a datetime, a dict of fields.                 *)
(***************************************************************************)
ISO8601 == "ISO8601"
TIMESTAMP == "timestamp"
DEFAULT_PARSE_DATETIME_FORMATS == <<ISO8601, TIMESTAMP>>

\* parser.EPOCH
EPOCH == MkDT(1970, 1, 1, 0, 0, 0, 0, UTC)

\* datetime.fromtimestamp(obj, UTC)
fromtimestamp(obj) ==
    IF obj.cls # "number"
    THEN Err("object cannot be interpreted as an integer")
    ELSE IF IsErr(DatetimeAdd(EPOCH, Timedelta(0, 0, 0, obj.v, 0)))
    THEN Err("year is out of range")
    ELSE DatetimeAdd(EPOCH, Timedelta(0, 0, 0, obj.v, 0))

\* datetime.strptime(obj, "%Y%d%m"): the year takes four digits, the day
\* and the month two where they can, else one.
YearDayMonth(s, dlen, mlen) ==
    IF /\ Digit2(s, 1) /\ Digit2(s, 3)
       /\ (IF dlen = 2 THEN Digit2(s, 5) /\ Num2(s, 5) \in 1..31
                       ELSE Digit1(s, 5) /\ Num1(s, 5) \in 1..9)
       /\ (IF mlen = 2 THEN Digit2(s, dlen + 5) /\ Num2(s, dlen + 5) \in 1..12
                       ELSE Digit1(s, dlen + 5) /\ Num1(s, dlen + 5) \in 1..9)
    THEN [pos |-> dlen + mlen + 5,
          year |-> 100 * Num2(s, 1) + Num2(s, 3),
          day |-> IF dlen = 2 THEN Num2(s, 5) ELSE Num1(s, 5),
          month |-> IF mlen = 2 THEN Num2(s, dlen + 5) ELSE Num1(s, dlen + 5)]
    ELSE NoMatch

FirstMatch(ways) ==
    IF \A i \in 1..Len(ways) : ways[i] = NoMatch THEN NoMatch
    ELSE ways[CHOOSE i \in 1..Len(ways) :
                  ways[i] # NoMatch /\ \A j \in 1..(i - 1) : ways[j] = NoMatch]

FromYearDayMonth(s, g) ==
    IF g = NoMatch THEN Err("time data does not match format")
    ELSE IF g.pos # Len(s) + 1 THEN Err("unconverted data remains")
    ELSE Datetime(g.year, g.month, g.day, 0, 0, 0, 0, NoTz)

strptime(obj) ==
    IF ~IsText(obj) THEN Err("strptime() argument 1 must be str")
    ELSE FromYearDayMonth(obj.v,
             FirstMatch(<<YearDayMonth(obj.v, 2, 2), YearDayMonth(obj.v, 2, 1),
                          YearDayMonth(obj.v, 1, 2), YearDayMonth(obj.v, 1, 1)>>))

\* format.upper() == ISO8601, format.lower() == TIMESTAMP
_parse_datetime_format(obj, format) ==
    IF format \in {"ISO8601", "iso8601"} THEN parse_date(obj)
    ELSE IF format \in {"timestamp", "TIMESTAMP"} THEN fromtimestamp(obj)
    ELSE strptime(obj)

\* errors[format] = str(exc)
Put(errors, format, reason) ==
    [f \in (DOMAIN errors) \cup {format} |->
        IF f = format THEN reason ELSE errors[f]]

\* The loop of _parse_datetime_formats from format number i on: the parsed
\* datetime (or none), the errors kept, and the formats that were tried.
Tried(dt, errors, tried) == [dt |-> dt, errors |-> errors, tried |-> tried]

\* The loop without its break: every format is tried and a later success
\* replaces an earlier one.
RECURSIVE FormatsLoop_NoBreak(_, _, _, _)
FormatsLoop_NoBreak(obj, formats, i, t) ==
    IF i > Len(formats) THEN t
    ELSE IF IsErr(_parse_datetime_format(obj, formats[i]))
    THEN FormatsLoop_NoBreak(obj, formats, i + 1,
             Tried(t.dt,
                   Put(t.errors, formats[i],
                       _parse_datetime_format(obj, formats[i]).err),
                   Append(t.tried, formats[i])))
    ELSE FormatsLoop_NoBreak(obj, formats, i + 1,
             Tried(_parse_datetime_format(obj, formats[i]), t.errors,
                   Append(t.tried, formats[i])))

RECURSIVE FormatsLoop(_, _, _, _)
FormatsLoop(obj, formats, i, t) ==
    IF i > Len(formats) THEN t
    ELSE IF IsErr(_parse_datetime_format(obj, formats[i]))
    THEN FormatsLoop(obj, formats, i + 1,
             Tried(NoValue,
                   Put(t.errors, formats[i],
                       _parse_datetime_format(obj, formats[i]).err),
                   Append(t.tried, formats[i])))
    ELSE Tried(_parse_datetime_format(obj, formats[i]), t.errors,
               Append(t.tried, formats[i]))

ParseError(msg, named) == [err |-> "ParseError", msg |-> msg, named |-> named]

\* '"format" (reason)' for every format of the list
NamedErrors(formats, errors) ==
    [i \in 1..Len(formats) |-> <<formats[i], errors[formats[i]]>>]

Raise(formats, t) ==
    IF t.dt = NoValue
    THEN Tried(ParseError("does not match any format",
                          NamedErrors(formats, t.errors)),
               t.errors, t.tried)
    ELSE t

_parse_datetime_formats(obj, formats) ==
    Raise(formats, FormatsLoop(obj, formats, 1, Tried(NoValue, <<>>, <<>>)))

is_valid_timezone(tz) == get_timezone(tz) # "ValueError"

\* isinstance(obj, datetime), or an object with a datetime's attributes
is_valid_datetime(obj) == obj.cls \in {"datetime", "Zulu"}

\* has_valid_timezone that looks at the instant only, whatever the offset.
has_valid_timezone_AnyOffset(dt) == ~IsErr(AsUTC(dt))

\* dt.astimezone(UTC) raises: the offset is not strictly between -24 and
\* +24 hours, or the instant leaves the years 1..9999.
has_valid_timezone(dt) ==
    /\ Abs(UtcOffset(dt)) < 1440
    /\ ~IsErr(AsUTC(dt))

\* The steps of parse_datetime after the formats.
WithDefault(dt, default_tz) ==
    IF dt.tzinfo = NoTz THEN [dt EXCEPT !.tzinfo = get_timezone(default_tz)]
    ELSE dt

CheckTimezone(dt) ==
    IF ~has_valid_timezone(dt)
    THEN ParseError("Timezone offset must be strictly between -24/+24 hours",
                    <<>>)
    ELSE dt

AfterFormats(t, default_tz) ==
    IF IsErr(t.dt) THEN t
    ELSE Tried(CheckTimezone(WithDefault(t.dt, default_tz)), t.errors, t.tried)

\* The formats argument: a list, or None for the default formats.
List(formats) == [list |-> formats]

FormatsOf(formats) ==
    IF formats = NoValue THEN DEFAULT_PARSE_DATETIME_FORMATS ELSE formats.list

parse_datetime(obj, formats, default_tz) ==
    IF ~is_valid_timezone(default_tz)
    THEN Tried(Err("ValueError: Unrecognized timezone"), <<>>, <<>>)
    ELSE IF is_valid_datetime(obj) THEN Tried(obj.v, <<>>, <<>>)
    ELSE AfterFormats(_parse_datetime_formats(obj, FormatsOf(formats)),
                      default_tz)

\* Zulu.parse: the Zulu or the exception, with the formats that were tried.
ToZulu(t) == Tried(fromdatetime(t.dt), t.errors, t.tried)

parse(obj, formats, default_tz) ==
    IF obj.cls = "dict" THEN Tried(fromdatetime(obj.v), <<>>, <<>>)
    ELSE ToZulu(parse_datetime(obj, formats, default_tz))

(***************************************************************************)
(* POSIX timestamps (zulu.py:207-220, 418-425, parser.py:330-332).  A      *)
(* float is the double nearest to a number of seconds: its sign, the whole *)
(* seconds as days and seconds, and the fraction as a count j of 1/(64e)   *)
(* seconds, or of microseconds where the double has bits enough to tell    *)
(* them apart (e = 0).                                                     *)
(***************************************************************************)
Float(neg, days, seconds, j, e) ==
    [neg |-> neg, days |-> days, seconds |-> seconds, j |-> j, e |-> e]

FloatOf(neg, td, bits) ==
    IF bits >= 20 THEN Float(neg, td.days, td.seconds, td.microseconds, 0)
    ELSE Float(neg, td.days, td.seconds,
               ToFraction(td.microseconds, Pow2(bits - 6)), Pow2(bits - 6))

Magnitude(td) == IF td.days < 0 THEN NegTd(td) ELSE td

\* timedelta.total_seconds()
total_seconds(td) ==
    FloatOf(td.days < 0, Magnitude(td),
            FractionBits(Magnitude(td).days, Magnitude(td).seconds))

\* parser.get_timestamp: (dt - EPOCH).total_seconds(), where the difference
\* is Zulu.__sub__ for a Zulu.
get_timestamp(dt) ==
    IF IsErr(__sub__(dt, Operand("datetime", EPOCH)))
    THEN __sub__(dt, Operand("datetime", EPOCH))
    ELSE total_seconds(__sub__(dt, Operand("datetime", EPOCH)))

\* Zulu.timestamp
timestamp(self) == get_timestamp(self)

\* The float split into whole seconds and microseconds, the fraction
\* rounded half to even.
FloatToTimedelta(x) ==
    Timedelta(x.days, 0, 0, x.seconds,
              IF x.e = 0 THEN x.j ELSE ToMicroseconds(x.j, x.e))

Signed(neg, td) == IF neg THEN NegTd(td) ELSE td

\* datetime.fromtimestamp(x, UTC) of a float
DatetimeFromFloat(x) ==
    IF IsErr(DatetimeAdd(EPOCH, Signed(x.neg, FloatToTimedelta(x))))
    THEN Err("ValueError: year is out of range")
    ELSE DatetimeAdd(EPOCH, Signed(x.neg, FloatToTimedelta(x)))

\* Zulu.fromtimestamp
Zulu_fromtimestamp(x) == fromdatetime(DatetimeFromFloat(x))

(***************************************************************************)
(* Zulu.range and Zulu.span_range (zulu.py:300-390) as generators.  A      *)
(* generator runs only inside next(): from its creation or from its last   *)
(* yield up to the next yield, its return, or the exception it raises.     *)
(***************************************************************************)
\* The step of Zulu.range: {frame + "s": 1}, 10 or 100 years for a decade
\* or a century (zulu.py:365-378).
StepUnits(frame) ==
    CASE frame = "century" -> [NoUnits EXCEPT !.years = 100]
      [] frame = "decade"  -> [NoUnits EXCEPT !.years = 10]
      [] frame = "year"    -> [NoUnits EXCEPT !.years = 1]
      [] frame = "month"   -> [NoUnits EXCEPT !.months = 1]
      [] frame = "week"    -> [NoUnits EXCEPT !.weeks = 1]
      [] frame = "day"     -> [NoUnits EXCEPT !.days = 1]
      [] frame = "hour"    -> [NoUnits EXCEPT !.hours = 1]
      [] frame = "minute"  -> [NoUnits EXCEPT !.minutes = 1]
      [] frame = "second"  -> [NoUnits EXCEPT !.seconds = 1]

NoGen ==
    [kind |-> "none", frame |-> "", start |-> NoValue, end |-> NoValue,
     next_start |-> NoValue, pending |-> NoValue, pc |-> "none", err |-> ""]

NewGen(kind, frame, start, end) ==
    [kind |-> kind, frame |-> frame, start |-> start, end |-> end,
     next_start |-> NoValue, pending |-> NoValue, pc |-> "created", err |-> ""]

Raised(g, e) == [gen |-> [g EXCEPT !.pc = "raised", !.err = e.err], yield |-> <<>>]
Returned(g) == [gen |-> [g EXCEPT !.pc = "done"], yield |-> <<>>]

\* One pass of the loop of Zulu.range from next_start = ns (zulu.py:383-390)
RangeStep(g, ns, next_end) ==
    IF IsErr(next_end) THEN Raised([g EXCEPT !.next_start = ns], next_end)
    ELSE IF NotAfter(next_end, g.end)
    THEN [gen |-> [g EXCEPT !.next_start = ns, !.pending = next_end,
                            !.pc = "suspended"],
          yield |-> <<ns>>]
    ELSE Returned([g EXCEPT !.next_start = ns])

RangeLoop(g, ns) == RangeStep(g, ns, shift(ns, StepUnits(g.frame)))

\* The pass that yields every span beginning at or before end.
SpanRangeStep_Overlapping(g, ns, sp) ==
    IF IsErr(sp) THEN Raised([g EXCEPT !.next_start = ns], sp)
    ELSE IF NotAfter(sp.first, g.end)
    THEN [gen |-> [g EXCEPT !.next_start = ns, !.pending = sp.second,
                            !.pc = "suspended"],
          yield |-> <<sp>>]
    ELSE Returned([g EXCEPT !.next_start = ns])

\* One pass of the loop of Zulu.span_range from next_start = ns
\* (zulu.py:326-337)
SpanRangeStep(g, ns, sp) ==
    IF IsErr(sp) THEN Raised([g EXCEPT !.next_start = ns], sp)
    ELSE IF NotAfter(sp.second, g.end)
    THEN [gen |-> [g EXCEPT !.next_start = ns, !.pending = sp.second,
                            !.pc = "suspended"],
          yield |-> <<sp>>]
    ELSE Returned([g EXCEPT !.next_start = ns])

SpanRangeLoop(g, ns) == SpanRangeStep(g, ns, span(ns, g.frame, 1))

SpanRangeResume(g, ns) ==
    IF IsErr(ns) THEN Raised(g, ns) ELSE SpanRangeLoop(g, ns)

\* next() on a generator of Zulu.range without the start > end test.
RangeNext_NoEmptyTest(g) ==
    IF g.pc = "created"
    THEN IF ~validate_frame(g.frame) THEN Raised(g, FrameError)
         ELSE RangeLoop(g, g.start)
    ELSE RangeLoop(g, g.pending)

\* next() on a generator of Zulu.range
RangeNext(g) ==
    IF g.pc = "created"
    THEN IF ~validate_frame(g.frame) THEN Raised(g, FrameError)
         ELSE IF Before(g.end, g.start) THEN Returned(g)
         ELSE RangeLoop(g, g.start)
    ELSE RangeLoop(g, g.pending)

\* next() on a generator of Zulu.span_range
SpanRangeNext(g) ==
    IF g.pc = "created"
    THEN IF Before(g.end, g.start) THEN Returned(g)
         ELSE SpanRangeLoop(g, g.start)
    ELSE SpanRangeResume(g, shift(g.pending, [NoUnits EXCEPT !.microseconds = 1]))


(***************************************************************************)
(* Bounds and the inputs the operations are tried on.                      *)
(***************************************************************************)
\* Longest chain of operations applied to one constructed value.
MaxOps == 2

\* The end of a range lies at most this many steps after its start.
MaxSteps == 3

\* Constructor arguments: the fields and the tzinfo argument.
Seed(y, m, d, H, M, S, us, tz) == [f |-> <<y, m, d, H, M, S, us>>, tz |-> tz]

Seeds ==
    { Seed(2000, 1, 1, 0, 0, 0, 0, NoTz),
      Seed(2015, 4, 4, 12, 30, 0, 0, NoTz),
      Seed(2015, 2, 5, 12, 30, 15, 123456, NoTz),
      Seed(2000, 1, 31, 0, 0, 0, 0, UTC),
      Seed(2000, 3, 10, 0, 0, 0, 0, London),
      Seed(2000, 6, 1, 12, 0, 0, 0, London),
      Seed(2000, 3, 26, 0, 30, 0, 0, London),
      Seed(2000, 10, 30, 0, 0, 0, 0, London),
      Seed(2000, 3, 26, 1, 30, 0, 0, LondonZI),
      Seed(2000, 1, 1, 0, 0, 0, 0, FixedWest),
      Seed(1999, 12, 31, 23, 59, 59, 999999, LOCAL_TZ),
      Seed(9999, 3, 1, 0, 0, 0, 0, NoTz),
      Seed(1, 1, 1, 0, 0, 0, 0, NoTz),
      Seed(9999, 12, 31, 23, 59, 59, 999999, NoTz),
      Seed(2000, 2, 30, 0, 0, 0, 0, NoTz),
      Seed(2000, 1, 1, 0, 0, 0, 0, "Mars/Phobos") }

Construct(s) ==
    ZuluNew(s.f[1], s.f[2], s.f[3], s.f[4], s.f[5], s.f[6], s.f[7], s.tz)

\* Right operands of a - b: Zulu values, a naive datetime, an aware one.
Others ==
    { Operand("Zulu", ZuluNew(2000, 1, 1, 0, 0, 0, 0, London)),
      Operand("Zulu", ZuluNew(1, 1, 1, 0, 0, 0, 0, NoTz)),
      Operand("Zulu", ZuluNew(2015, 4, 4, 12, 30, 0, 0, NoTz)),
      Operand("datetime", MkDT(1999, 12, 31, 23, 59, 59, 999999, NoTz)),
      Operand("datetime", MkDT(2000, 1, 1, 0, 0, 0, 0, FixedWest)) }

\* Durations added to and subtracted from a Zulu.
Durations ==
    { Operand("timedelta", Timedelta(1, 0, 0, 0, 0)),
      Operand("Delta", AsDelta(Timedelta(0, 0 - 36, 0, 0, 1))) }

\* Frame names passed to the frame operations: the valid ones and others.
Frames == TIME_FRAMES \cup {"fortnight"}

Counts == {1, 2}

\* Keyword units passed to shift, add and subtract.
UnitChoices ==
    { [NoUnits EXCEPT !.years = 2, !.months = 7, !.weeks = 13, !.days = 400],
      [NoUnits EXCEPT !.months = 1],
      [NoUnits EXCEPT !.months = 0 - 13],
      [NoUnits EXCEPT !.days = 0 - 1],
      [NoUnits EXCEPT !.hours = 25, !.microseconds = 0 - 1500000] }

\* Attributes passed to replace.
ReplaceChoices ==
    { [month |-> 7], [day |-> 31], [tzinfo |-> London] }

(***************************************************************************)
(* State                                                                   *)
(***************************************************************************)
VARIABLES
    recv,   \* the receiver of the last operation
    op,     \* the last operation and its arguments
    res,    \* what the last operation returned or raised
    nops,   \* operations applied since the last construction
    obj,    \* the receiver object of the last operation, read after it
    gen,    \* the generator being iterated, NoGen when there is none
    out     \* the elements the generator has yielded so far

vars == <<recv, op, res, nops, obj, gen, out>>

Op(name, frame, count, units, repl) ==
    [name |-> name, frame |-> frame, count |-> count, units |-> units,
     repl |-> repl, arg |-> NoValue]

OpArg(name, arg) ==
    [name |-> name, frame |-> "", count |-> 0, units |-> NoUnits,
     repl |-> [x \in {} |-> 0], arg |-> arg]

NoRepl == [x \in {} |-> 0]

IsZulu(x) == "year" \in DOMAIN x
IsPair(x) == "first" \in DOMAIN x

\* The value the next operation is called on: the last result when it is a
\* Zulu, else the receiver that produced it.
Cur == IF IsZulu(res) THEN res ELSE recv

\* Zulu() with the default arguments (zulu.py:84-96)
Init ==
    /\ recv = NoValue
    /\ op = Op("init", "", 0, NoUnits, NoRepl)
    /\ res = ZuluNew(1970, 1, 1, 0, 0, 0, 0, NoTz)
    /\ nops = 0
    /\ obj = NoValue
    /\ gen = NoGen
    /\ out = <<>>

Idle == gen.pc = "none"
CanCall == Idle /\ nops < MaxOps /\ IsZulu(Cur)

\* The receiver object after a method returned, where a method replaced
\* the receiver's fields in place by those of its result.
SelfAfter_ReplaceInPlace(v, o, r) ==
    IF o.name = "replace" /\ IsZulu(r) THEN r ELSE v

\* The receiver object after method o returned r: no method of Zulu assigns
\* to self, each builds its result with self.__class__(...) / fromdatetime
\* from values read from self (zulu.py:838-847, 698-709, 1186-1227).
SelfAfter(v, o, r) == v

Call(o, r) ==
    /\ recv' = Cur
    /\ op' = o
    /\ res' = r
    /\ nops' = nops + 1
    /\ obj' = SelfAfter(Cur, o, r)
    /\ UNCHANGED <<gen, out>>

\* Zulu(year, ..., tzinfo)
New ==
    /\ Idle
    /\ \E s \in Seeds :
          /\ recv' = NoValue
          /\ op' = Op("new", "", 0, NoUnits, NoRepl)
          /\ res' = Construct(s)
          /\ nops' = 0
          /\ obj' = NoValue
    /\ UNCHANGED <<gen, out>>

DoShift ==
    /\ CanCall
    /\ \E u \in UnitChoices : Call(Op("shift", "", 0, u, NoRepl), shift(Cur, u))

DoAdd ==
    /\ CanCall
    /\ \E u \in UnitChoices : Call(Op("add", "", 0, u, NoRepl), add(Cur, u))

DoSubtract ==
    /\ CanCall
    /\ \E u \in UnitChoices :
          Call(Op("subtract", "", 0, u, NoRepl), subtract(Cur, u))

DoReplace ==
    /\ CanCall
    /\ \E r \in ReplaceChoices :
          Call(Op("replace", "", 0, NoUnits, r), replace(Cur, r))

DoStartOf ==
    /\ CanCall
    /\ \E f \in Frames :
          Call(Op("start_of", f, 0, NoUnits, NoRepl), start_of(Cur, f))

DoEndOf ==
    /\ CanCall
    /\ \E f \in Frames, c \in Counts :
          Call(Op("end_of", f, c, NoUnits, NoRepl), end_of(Cur, f, c))

DoSpan ==
    /\ CanCall
    /\ \E f \in Frames, c \in Counts :
          Call(Op("span", f, c, NoUnits, NoRepl), span(Cur, f, c))

\* a + d
DoPlus ==
    /\ CanCall
    /\ \E d \in Durations : Call(OpArg("+", d), __add__(Cur, d))

\* a - b and a - d
DoMinus ==
    /\ CanCall
    /\ \E b \in Others \cup Durations : Call(OpArg("-", b), __sub__(Cur, b))

\* The end of a range: k steps of the frame after the start (before it when
\* k < 0), moved by slack microseconds; an unknown frame steps by days.
\* Where that instant is not representable the end is the start itself.
Scale(u, k) ==
    [years |-> u.years * k, months |-> u.months * k, weeks |-> u.weeks * k,
     days |-> u.days * k, hours |-> u.hours * k, minutes |-> u.minutes * k,
     seconds |-> u.seconds * k, microseconds |-> u.microseconds * k]

OrElse(e, start) == IF ~IsErr(e) THEN e ELSE start

EndFor(start, frame, k, slack) ==
    OrElse(shift(start,
                 [Scale(IF frame \in TIME_FRAMES THEN StepUnits(frame)
                        ELSE [NoUnits EXCEPT !.days = 1], k)
                      EXCEPT !.microseconds = slack]),
           start)

Slacks == {0 - 1, 0}

\* Zulu.range(frame, start, end): creates the generator, runs nothing yet.
CallRange ==
    /\ Idle /\ nops < MaxOps /\ IsZulu(res) /\ op.name = "new"
    /\ \E f \in Frames, k \in (0 - 1)..MaxSteps, sl \in Slacks :
          gen' = NewGen("range", f, res, EndFor(res, f, k, sl))
    /\ out' = <<>>
    /\ UNCHANGED <<recv, op, res, nops, obj>>

\* Zulu.span_range(frame, start, end)
CallSpanRange ==
    /\ Idle /\ nops < MaxOps /\ IsZulu(res) /\ op.name = "new"
    /\ \E f \in Frames, k \in (0 - 1)..MaxSteps, sl \in Slacks :
          gen' = NewGen("span_range", f, res, EndFor(res, f, k, sl))
    /\ out' = <<>>
    /\ UNCHANGED <<recv, op, res, nops, obj>>

Live == gen.pc \in {"created", "suspended"}

\* next(generator) for a generator of Zulu.range
Resume(r) == gen' = r.gen /\ out' = out \o r.yield

NextOfRange ==
    /\ gen.kind = "range" /\ Live
    /\ Resume(RangeNext(gen))
    /\ UNCHANGED <<recv, op, res, nops, obj>>

\* next(generator) for a generator of Zulu.span_range
NextOfSpanRange ==
    /\ gen.kind = "span_range" /\ Live
    /\ Resume(SpanRangeNext(gen))
    /\ UNCHANGED <<recv, op, res, nops, obj>>

\* The consumer drops a generator that returned or raised.
Drop ==
    /\ gen.pc \in {"done", "raised"}
    /\ gen' = NoGen
    /\ out' = <<>>
    /\ UNCHANGED <<recv, op, res, nops, obj>>

Next ==
    \/ New
    \/ DoShift
    \/ DoAdd
    \/ DoSubtract
    \/ DoReplace
    \/ DoStartOf
    \/ DoEndOf
    \/ DoSpan
    \/ DoPlus
    \/ DoMinus
    \/ CallRange
    \/ CallSpanRange
    \/ NextOfRange
    \/ NextOfSpanRange
    \/ Drop

Spec == Init /\ [][Next]_vars

(***************************************************************************)
(* Parsing: Zulu.parse is called on strings, numbers, datetimes and dicts, *)
(* with a list of formats and a default timezone, and on the ISO-8601 text *)
(* of a Zulu.                                                              *)
(***************************************************************************)
Text(chars) == Operand("str", chars)

Texts ==
    {
      \* 2000
      <<"2", "0", "0", "0">>,
      \* 2000-01-01T12:30:30-0400
      <<"2", "0", "0", "0", "-", "0", "1", "-", "0", "1", "T", "1", "2", ":", "3", "0", ":", "3", "0", "-", "0", "4", "0", "0">>,
      \* 2000-01-01T12:00:00-2359
      <<"2", "0", "0", "0", "-", "0", "1", "-", "0", "1", "T", "1", "2", ":", "0", "0", ":", "0", "0", "-", "2", "3", "5", "9">>,
      \* 2000-01-01T12:00:00+2359
      <<"2", "0", "0", "0", "-", "0", "1", "-", "0", "1", "T", "1", "2", ":", "0", "0", ":", "0", "0", "+", "2", "3", "5", "9">>,
      \* 2000-01-01T00:00:00+2400
      <<"2", "0", "0", "0", "-", "0", "1", "-", "0", "1", "T", "0", "0", ":", "0", "0", ":", "0", "0", "+", "2", "4", "0", "0">>,
      \* 2000-01-01T00:00:00-2400
      <<"2", "0", "0", "0", "-", "0", "1", "-", "0", "1", "T", "0", "0", ":", "0", "0", ":", "0", "0", "-", "2", "4", "0", "0">>,
      \* 2000-01-01T00:00:00+2500
      <<"2", "0", "0", "0", "-", "0", "1", "-", "0", "1", "T", "0", "0", ":", "0", "0", ":", "0", "0", "+", "2", "5", "0", "0">>,
      \* 2000-01-01T00:00:00-2500
      <<"2", "0", "0", "0", "-", "0", "1", "-", "0", "1", "T", "0", "0", ":", "0", "0", ":", "0", "0", "-", "2", "5", "0", "0">>,
      \* junk
      <<"j", "u", "n", "k">>,
      \* 20000102
      <<"2", "0", "0", "0", "0", "1", "0", "2">>,
      \* 20003112x
      <<"2", "0", "0", "0", "3", "1", "1", "2", "x">>,
      \* 2000-01-01T12:00:00
      <<"2", "0", "0", "0", "-", "0", "1", "-", "0", "1", "T", "1", "2", ":", "0", "0", ":", "0", "0">>,
      \* 2000-07-01T12:00:00
      <<"2", "0", "0", "0", "-", "0", "7", "-", "0", "1", "T", "1", "2", ":", "0", "0", ":", "0", "0">>,
      \* 2000-03-26T01:30:00
      <<"2", "0", "0", "0", "-", "0", "3", "-", "2", "6", "T", "0", "1", ":", "3", "0", ":", "0", "0">>,
      \* 0001-01-01T00:00:00+0100
      <<"0", "0", "0", "1", "-", "0", "1", "-", "0", "1", "T", "0", "0", ":", "0", "0", ":", "0", "0", "+", "0", "1", "0", "0">>,
      \* 9999-12-31T23:59:59-0100
      <<"9", "9", "9", "9", "-", "1", "2", "-", "3", "1", "T", "2", "3", ":", "5", "9", ":", "5", "9", "-", "0", "1", "0", "0">>,
      \* 2000-01-01T12:00:00Z
      <<"2", "0", "0", "0", "-", "0", "1", "-", "0", "1", "T", "1", "2", ":", "0", "0", ":", "0", "0", "Z">> }

\* Seconds since the epoch.
Numbers == {0, 946728000}

\* A naive datetime, an aware one.
Datetimes ==
    { MkDT(2000, 1, 1, 12, 0, 0, 0, NoTz),
      MkDT(2000, 1, 1, 12, 0, 0, 0, FixedWest) }

\* Keyword arguments of Zulu() in a dict.
Dicts == { MkDT(2000, 3, 1, 0, 0, 0, 0, NoTz) }

FormatLists ==
    { NoValue,
      List(<<>>),
      List(<<TIMESTAMP, ISO8601>>),
      List(<<"%Y%d%m", ISO8601>>),
      List(<<ISO8601, "%Y%d%m">>),
      List(<<"iso8601", "%Y%d%m", TIMESTAMP, "%Y%d%m">>) }

\* default_tz: None, names, tzinfo objects, a name no zone has, a tzinfo
\* whose offset is out of range.
DefaultTzs == {NoTz, UTC, London, LondonZI, FixedWest, "Mars/Phobos", BadTz}

ParseArgs(formats, default_tz) ==
    [formats |-> formats, default_tz |-> default_tz]

\* Zulu.parse(o, formats, default_tz); v is the Zulu whose text o is, if any.
CallParse(v, o, formats, default_tz) ==
    /\ recv' = v
    /\ op' = OpArg("parse", ParseArgs(formats, default_tz))
    /\ obj' = o
    /\ res' = parse(o, formats, default_tz).dt
    /\ out' = parse(o, formats, default_tz).tried
    /\ UNCHANGED <<nops, gen>>

\* Instants more than 2^33 seconds from the epoch, and the two around it.
FarSeeds ==
    { Seed(2300, 1, 1, 0, 0, 0, 1, NoTz),
      Seed(1, 1, 1, 0, 0, 0, 5, NoTz),
      Seed(2242, 3, 16, 12, 56, 31, 999999, NoTz),
      Seed(2242, 3, 16, 12, 56, 32, 1, NoTz) }

\* Zulu(year, ..., tzinfo)
NewZulu ==
    /\ \E s \in Seeds \cup FarSeeds :
          /\ recv' = NoValue
          /\ op' = OpArg("new", NoValue)
          /\ res' = Construct(s)
          /\ obj' = NoValue
          /\ out' = <<>>
    /\ UNCHANGED <<nops, gen>>

\* Zulu.parse is a classmethod and keeps no state: what a call returns
\* does not depend on the calls before it, so each object is parsed once,
\* as the first call.
FirstCall == op.name = "init"

ParseText ==
    /\ FirstCall
    /\ \E t \in Texts, f \in FormatLists, z \in DefaultTzs :
          CallParse(NoValue, Text(t), f, z)

ParseNumber ==
    /\ FirstCall
    /\ \E n \in Numbers, f \in FormatLists, z \in DefaultTzs :
          CallParse(NoValue, Operand("number", n), f, z)

ParseDatetime ==
    /\ FirstCall
    /\ \E d \in Datetimes, f \in FormatLists, z \in DefaultTzs :
          CallParse(NoValue, Operand("datetime", d), f, z)

ParseDict ==
    /\ FirstCall
    /\ \E d \in Dicts, f \in FormatLists, z \in DefaultTzs :
          CallParse(NoValue, Operand("dict", d), f, z)

\* v.isoformat() of the Zulu v last constructed or parsed
Isoformat ==
    /\ IsZulu(res)
    /\ recv' = res
    /\ op' = OpArg("isoformat", NoValue)
    /\ res' = Text(isoformat(res))
    /\ obj' = NoValue
    /\ out' = <<>>
    /\ UNCHANGED <<nops, gen>>

\* Zulu.parse(v.isoformat())
ParseIsoformat ==
    /\ op.name = "isoformat"
    /\ CallParse(recv, res, NoValue, NoTz)

\* v.timestamp() of the Zulu v last constructed or parsed
Timestamp ==
    /\ IsZulu(res)
    /\ recv' = res
    /\ op' = OpArg("timestamp", NoValue)
    /\ res' = Operand("float", timestamp(res))
    /\ obj' = NoValue
    /\ out' = <<>>
    /\ UNCHANGED <<nops, gen>>

\* Zulu.fromtimestamp(v.timestamp())
FromTimestamp ==
    /\ op.name = "timestamp"
    /\ recv' = recv
    /\ op' = OpArg("fromtimestamp", NoValue)
    /\ obj' = res
    /\ res' = Zulu_fromtimestamp(res.v)
    /\ out' = <<>>
    /\ UNCHANGED <<nops, gen>>

ParseNext ==
    \/ NewZulu
    \/ ParseText
    \/ ParseNumber
    \/ ParseDatetime
    \/ ParseDict
    \/ Isoformat
    \/ ParseIsoformat
    \/ Timestamp
    \/ FromTimestamp

ParseSpec == Init /\ [][ParseNext]_vars


(***************************************************************************)
(* Arithmetic on Delta values: a Delta is constructed, then operators are  *)
(* applied to it and to their Delta results.                               *)
(***************************************************************************)
Delta(days, hours, minutes, seconds, microseconds) ==
    NewDelta(Timedelta(days, hours, minutes, seconds, microseconds))

\* Delta.min and Delta.max (delta.py:145-146)
DeltaMin == Delta(0 - MAXDAYS, 0, 0, 0, 0)
DeltaMax == Delta(MAXDAYS, 23, 59, 59, 999999)

DeltaSeeds ==
    { Delta(1, 1, 1, 1, 1), Delta(0, 0, 0, 0, 0), Delta(0 - 3, 0, 0, 0, 7),
      Delta(300000, 0, 0, 0, 1), DeltaMin, DeltaMax }

DeltaOperands == {Delta(1, 1, 1, 1, 1), Delta(0, 0, 0, 0, 1), DeltaMax}

Moduli == {Delta(1, 1, 1, 1, 1), Delta(0 - 2, 0, 0, 0, 0), Delta(0, 0, 0, 0, 0)}

Scalars == {0 - 1, 0, 1, 3}

DeltaInit ==
    /\ recv = NoValue
    /\ op = OpArg("Delta", NoValue)
    /\ res \in DeltaSeeds
    /\ nops = 0
    /\ obj = NoValue
    /\ gen = NoGen
    /\ out = <<>>

(***************************************************************************)
(* Delta.parse.  pytimeparse is a library outside the repository; the part *)
(* of its grammar modelled is the one the repository's tests pin down:     *)
(* counts of one or two digits followed by w, d, h, m or s, in that order, *)
(* and the clock forms M:SS and H:MM:SS.                                   *)
(***************************************************************************)
CountEnd(s, i) == IF Digit2(s, i) THEN i + 2 ELSE i + 1

Count(s, i) == IF Digit2(s, i) THEN Num2(s, i) ELSE Num1(s, i)

AfterUnit(g, s, unit, k) ==
    IF Digit1(s, g.pos) /\ At(s, CountEnd(s, g.pos)) = unit
    THEN [pos |-> CountEnd(s, g.pos) + 1,
          seconds |-> g.seconds + k * Count(s, g.pos)]
    ELSE g

Units(s) ==
    AfterUnit(AfterUnit(AfterUnit(AfterUnit(AfterUnit(
        [pos |-> 1, seconds |-> 0],
        s, "w", 604800), s, "d", 86400), s, "h", 3600), s, "m", 60), s, "s", 1)

IsMinSec(s) ==
    /\ Digit1(s, 1)
    /\ At(s, CountEnd(s, 1)) = ":"
    /\ Digit2(s, CountEnd(s, 1) + 1)
    /\ Len(s) = CountEnd(s, 1) + 2

IsHourMinSec(s) ==
    /\ Digit1(s, 1)
    /\ At(s, CountEnd(s, 1)) = ":"
    /\ Digit2(s, CountEnd(s, 1) + 1)
    /\ At(s, CountEnd(s, 1) + 3) = ":"
    /\ Digit2(s, CountEnd(s, 1) + 4)
    /\ Len(s) = CountEnd(s, 1) + 5

\* pytimeparse.parse(s): a number of seconds, or None
pytimeparse(s) ==
    IF Len(s) > 0 /\ Units(s).pos = Len(s) + 1
    THEN Operand("int", Units(s).seconds)
    ELSE IF IsMinSec(s)
    THEN Operand("int", 60 * Count(s, 1) + Num2(s, CountEnd(s, 1) + 1))
    ELSE IF IsHourMinSec(s)
    THEN Operand("int", 3600 * Count(s, 1) + 60 * Num2(s, CountEnd(s, 1) + 1)
                            + Num2(s, CountEnd(s, 1) + 4))
    ELSE NoValue

\* helpers.NUMBER_TYPES; bool is a subclass of int
NUMBER_TYPES == {"int", "float", "Decimal", "bool"}

\* timedelta(seconds=n)
TimedeltaOfSeconds(n) ==
    IF n.cls = "Decimal"
    THEN Err("TypeError: unsupported type for timedelta seconds component")
    ELSE TdRange(Timedelta(0, 0, 0, n.v, 0))

\* parser.parse_timedelta
parse_timedelta(o) ==
    IF o.cls \in {"timedelta", "Delta"} THEN o.v
    ELSE IF o.cls # "str" /\ o.cls \notin NUMBER_TYPES
    THEN Err("TypeError: Expected string or number type")
    ELSE IF o.cls = "str"
    THEN (IF pytimeparse(o.v) = NoValue
          THEN Err("ParseError: not a recognized duration format")
          ELSE TimedeltaOfSeconds(pytimeparse(o.v)))
    ELSE TimedeltaOfSeconds(o)

\* Delta.parse
Delta_parse(o) ==
    IF IsErr(parse_timedelta(o)) THEN parse_timedelta(o)
    ELSE fromtimedelta(parse_timedelta(o))

GivenTimedeltas ==
    { Operand("timedelta", Timedelta(0, 0, 0, 60, 0)),
      Operand("timedelta", Timedelta(0 - 3, 0, 0, 0, 7)),
      Operand("timedelta", Timedelta(300000, 0, 0, 0, 1)),
      Operand("timedelta", Timedelta(MAXDAYS, 23, 59, 59, 999999)),
      Operand("Delta", Delta(1, 1, 1, 1, 1)),
      Operand("Delta", DeltaMax) }

GivenNumbers ==
    { Operand("int", 60), Operand("int", 0), Operand("int", 0 - 5),
      Operand("bool", 1), Operand("Decimal", 2) }

GivenStrings ==
    { Operand("str", <<"3", "2", "m">>),
      Operand("str", <<"2", "h", "3", "2", "m">>),
      Operand("str", <<"3", "d", "2", "h", "3", "2", "m">>),
      Operand("str", <<"1", "w", "3", "d", "2", "h", "3", "2", "m">>),
      Operand("str", <<"4", ":", "1", "3">>),
      Operand("str", <<"4", ":", "1", "3", ":", "0", "2">>),
      Operand("str", <<>>),
      Operand("str", <<"a">>) }

GivenOthers == { Operand("dict", <<>>), Operand("NoneType", <<>>),
                 Operand("list", <<>>) }

Parsed(o) ==
    /\ recv' = NoValue
    /\ op' = OpArg("parse", NoValue)
    /\ obj' = o
    /\ res' = Delta_parse(o)
    /\ nops' = nops + 1
    /\ UNCHANGED <<gen, out>>

\* Delta.parse(obj)
DeltaParse ==
    /\ op.name = "Delta"
    /\ \/ \E o \in GivenTimedeltas : Parsed(o)
       \/ \E o \in GivenNumbers : Parsed(o)
       \/ \E o \in GivenStrings : Parsed(o)
       \/ \E o \in GivenOthers : Parsed(o)

\* The Delta the next operator is applied to.
CurDelta == IF IsDelta(res) THEN res ELSE recv

CanApply == nops < MaxOps /\ IsDelta(CurDelta)

Apply(name, other) ==
    /\ recv' = CurDelta
    /\ op' = OpArg(name, other)
    /\ res' = DeltaMethod(name, CurDelta, other)
    /\ nops' = nops + 1
    /\ UNCHANGED <<obj, gen, out>>

\* a + b
DeltaPlus == CanApply /\ \E b \in DeltaOperands : Apply("__add__", b)

\* a - b
DeltaMinus == CanApply /\ \E b \in DeltaOperands : Apply("__sub__", b)

\* a * k
DeltaTimes == CanApply /\ \E k \in Scalars : Apply("__mul__", k)

\* k * a
DeltaTimesReflected == CanApply /\ \E k \in Scalars : Apply("__rmul__", k)

\* a / k
DeltaOver == CanApply /\ \E k \in Scalars : Apply("__truediv__", k)

\* a // k
DeltaFloorOver == CanApply /\ \E k \in Scalars : Apply("__floordiv__", k)

\* abs(a)
DeltaAbs == CanApply /\ Apply("__abs__", NoValue)

\* -a
DeltaNegate == CanApply /\ Apply("__neg__", NoValue)

\* +a
DeltaPositive == CanApply /\ Apply("__pos__", NoValue)

\* a % b
DeltaModulo == CanApply /\ \E b \in Moduli : Apply("__mod__", b)

\* divmod(a, b)
DeltaDivmod == CanApply /\ \E b \in Moduli : Apply("__divmod__", b)

DeltaNext ==
    \/ DeltaPlus
    \/ DeltaMinus
    \/ DeltaTimes
    \/ DeltaTimesReflected
    \/ DeltaOver
    \/ DeltaFloorOver
    \/ DeltaAbs
    \/ DeltaNegate
    \/ DeltaPositive
    \/ DeltaModulo
    \/ DeltaDivmod
    \/ DeltaParse

DeltaSpec == DeltaInit /\ [][DeltaNext]_vars


(***************************************************************************)
(* Timer (timer.py).  obj is the timer, recv the timer before the last     *)
(* call, op.arg the reading of time.time() at the last call, out the       *)
(* start/stop/reset calls made so far with their readings.  A slot holding *)
(* None is <<>>, a slot holding the time t is <<t>>.                       *)
(***************************************************************************)
None == <<>>

Some(t) == <<t>>

\* Timer.reset
reset(self) == [self EXCEPT !.started_at = None, !.stopped_at = None]

\* Timer.__init__: autostart is accepted and not used
Timer(timeout, autostart) ==
    reset([timeout |-> timeout, started_at |-> None, stopped_at |-> None])

Offset(self) ==
    IF self.stopped_at # None /\ self.started_at # None
    THEN (IF self.started_at[1] < self.stopped_at[1]
          THEN self.stopped_at[1] - self.started_at[1] ELSE 0)
    ELSE 0

start_NoCarry(self, now) ==
    [self EXCEPT !.started_at = Some(now), !.stopped_at = None]

\* Timer.start
start(self, now) ==
    [self EXCEPT !.started_at = Some(now - Offset(self)), !.stopped_at = None]

\* Timer.stop
stop(self, now) == [self EXCEPT !.stopped_at = Some(now)]

\* Timer.started
started(self) ==
    /\ self.started_at # None
    /\ (self.stopped_at = None \/ self.stopped_at[1] < self.started_at[1])

stopped_Strict(self) ==
    \/ self.started_at = None
    \/ (self.stopped_at # None /\ self.stopped_at[1] > self.started_at[1])

\* Timer.stopped
stopped(self) ==
    \/ self.started_at = None
    \/ (self.stopped_at # None /\ self.stopped_at[1] >= self.started_at[1])

\* Timer.elapsed
elapsed(self, now) ==
    IF self.started_at = None THEN 0
    ELSE IF self.stopped_at # None
    THEN self.stopped_at[1] - self.started_at[1]
    ELSE now - self.started_at[1]

\* Timer.remaining
remaining(self, now) == self.timeout - elapsed(self, now)

done_Strict(self, now) == elapsed(self, now) > self.timeout

\* Timer.done
done(self, now) == elapsed(self, now) >= self.timeout

\* Calls of start, stop and reset in one run.
MaxCalls == 4

\* What time.time() returns: a reading not below the last one.
Readings == {0, 5, 10, 15, 30}

Timeouts == {0, 10}

Later == {t \in Readings : t >= op.arg}

TimerInit ==
    /\ recv = NoValue
    /\ op = OpArg("Timer", 0)
    /\ res = NoValue
    /\ nops = 0
    /\ \E timeout \in Timeouts, autostart \in BOOLEAN :
           obj = Timer(timeout, autostart)
    /\ gen = NoGen
    /\ out = <<>>

Called(name, now, self, result, log) ==
    /\ recv' = obj
    /\ op' = OpArg(name, now)
    /\ obj' = self
    /\ res' = result
    /\ nops' = nops + Len(log)
    /\ out' = out \o log
    /\ UNCHANGED gen

MoreCalls == nops < MaxCalls

Logged(name, now) == <<[name |-> name, at |-> now]>>

\* timer.start()
TimerStart ==
    /\ MoreCalls
    /\ \E now \in Later :
           Called("start", now, start(obj, now), start(obj, now),
                  Logged("start", now))

\* timer.stop()
TimerStop ==
    /\ MoreCalls
    /\ \E now \in Later :
           Called("stop", now, stop(obj, now), stop(obj, now),
                  Logged("stop", now))

\* timer.reset()
TimerReset ==
    /\ MoreCalls
    /\ Called("reset", op.arg, reset(obj), reset(obj),
              Logged("reset", op.arg))

\* with timer: entering calls start() and returns the timer
TimerEnter ==
    /\ MoreCalls
    /\ \E now \in Later :
           Called("__enter__", now, start(obj, now), start(obj, now),
                  Logged("start", now))

\* with timer: leaving calls stop() and returns None
TimerExit ==
    /\ MoreCalls
    /\ \E now \in Later :
           Called("__exit__", now, stop(obj, now), NoValue,
                  Logged("stop", now))

\* timer.elapsed()
TimerElapsed ==
    \E now \in Later :
        Called("elapsed", now, obj, Operand("int", elapsed(obj, now)), <<>>)

\* timer.remaining()
TimerRemaining ==
    \E now \in Later :
        Called("remaining", now, obj, Operand("int", remaining(obj, now)),
               <<>>)

\* timer.done()
TimerDone ==
    \E now \in Later :
        Called("done", now, obj, Operand("bool", done(obj, now)), <<>>)

\* timer.started()
TimerStarted ==
    Called("started", op.arg, obj, Operand("bool", started(obj)), <<>>)

\* timer.stopped()
TimerStopped ==
    Called("stopped", op.arg, obj, Operand("bool", stopped(obj)), <<>>)

TimerNext ==
    \/ TimerStart
    \/ TimerStop
    \/ TimerReset
    \/ TimerEnter
    \/ TimerExit
    \/ TimerElapsed
    \/ TimerRemaining
    \/ TimerDone
    \/ TimerStarted
    \/ TimerStopped

TimerSpec == TimerInit /\ [][TimerNext]_vars


(***************************************************************************)
(* What the claims speak about                                             *)
(***************************************************************************)
Zulus(x) ==
    IF IsZulu(x) THEN {x}
    ELSE IF IsPair(x) THEN {x.first, x.second}
    ELSE {}

\* Every Zulu value the state holds.
StateZulus ==
    Zulus(recv) \cup Zulus(res) \cup Zulus(gen.start) \cup Zulus(gen.end)
        \cup Zulus(gen.next_start) \cup Zulus(gen.pending)
        \cup UNION {Zulus(out[i]) : i \in 1..Len(out)}

Neg(u) == Scale(u, 0 - 1)
OneMicrosecond == [NoUnits EXCEPT !.microseconds = 1]
MinusOneMicrosecond == [NoUnits EXCEPT !.microseconds = 0 - 1]

\* Two results agree: both are errors, or both are the same instant.
Agree(a, b) ==
    IF IsErr(a) \/ IsErr(b) THEN IsErr(a) /\ IsErr(b) ELSE SameInstant(a, b)

\* A generator over a supported frame with start <= end / start > end.
Ranging(kind) ==
    /\ gen.kind = kind
    /\ gen.frame \in TIME_FRAMES
    /\ NotAfter(gen.start, gen.end)

Started == gen.pc \in {"suspended", "done", "raised"}

----------------------------------------------------------------------------
\* C1: every Zulu value, however constructed (any tzinfo argument) and after
\* any sequence of replace, shift, add, subtract, start_of, end_of, span,
\* range and span_range, has UTC offset zero.
C1_UtcOffsetZero == \A z \in StateZulus : UtcOffset(z) = 0

\* A value built in a zone with DST, then shifted twice, the second shift
\* carrying it from winter time into summer time.
C1_Witness ==
    /\ nops >= 2
    /\ op.name = "shift"
    /\ IsZulu(res)
    /\ recv.tzinfo = London
    /\ res.tzinfo = UTC

----------------------------------------------------------------------------
\* C2: the tzinfo stored in a Zulu is always the fixed UTC zone, whatever
\* tzinfo was supplied, so that shift computes on the UTC fields and not on
\* the wall clock of the supplied zone.
C2_StoredTzIsUTC ==
    /\ \A z \in StateZulus : z.tzinfo = UTC
    /\ (op.name = "shift" /\ IsZulu(recv))
          => Agree(res, shift([recv EXCEPT !.tzinfo = UTC], op.units))


----------------------------------------------------------------------------
\* C3: Zulu.range(frame, start, end) with start <= end yields a strictly
\* increasing sequence that begins with start, each next element being the
\* previous one shifted by one step; x is yielded exactly when x shifted by
\* one step is <= end, so end itself is never yielded.
C3_FirstIsStart ==
    (Ranging("range") /\ Len(out) >= 1) => SameInstant(out[1], gen.start)

C3_NextIsShifted ==
    Ranging("range") =>
        \A i \in 1..(Len(out) - 1) :
            Agree(out[i + 1], shift(out[i], StepUnits(gen.frame)))

C3_StrictlyIncreasing ==
    Ranging("range") =>
        \A i \in 1..(Len(out) - 1) : Before(out[i], out[i + 1])

C3_YieldedIffStepFits ==
    Ranging("range") =>
        /\ \A i \in 1..Len(out) :
              LET n == shift(out[i], StepUnits(gen.frame))
              IN  ~IsErr(n) /\ NotAfter(n, gen.end)
        /\ gen.pc = "done" =>
              LET n == shift(gen.next_start, StepUnits(gen.frame))
              IN  IsErr(n) \/ ~NotAfter(n, gen.end)

C3_EndNotYielded ==
    Ranging("range") => \A i \in 1..Len(out) : ~SameInstant(out[i], gen.end)

\* range("year", 2015-04-04T12:30, 2018-04-04T12:30)
C3_Example ==
    ( /\ gen.kind = "range" /\ gen.frame = "year" /\ gen.pc = "done"
      /\ gen.start = MkDT(2015, 4, 4, 12, 30, 0, 0, UTC)
      /\ gen.end = MkDT(2018, 4, 4, 12, 30, 0, 0, UTC) )
    => out = << MkDT(2015, 4, 4, 12, 30, 0, 0, UTC),
                MkDT(2016, 4, 4, 12, 30, 0, 0, UTC),
                MkDT(2017, 4, 4, 12, 30, 0, 0, UTC) >>

\* C3: Zulu.range with start <= end yields a strictly increasing sequence
\* from start in steps of one frame, x being yielded exactly when x shifted
\* by one step is <= end, and never yields end (all parts above together).
C3_Range ==
    /\ C3_FirstIsStart
    /\ C3_NextIsShifted
    /\ C3_StrictlyIncreasing
    /\ C3_YieldedIffStepFits
    /\ C3_EndNotYielded
    /\ C3_Example

----------------------------------------------------------------------------
\* C4: Zulu.span_range yields pairs (s_i, e_i), each the (start_of, end_of)
\* of one frame, with s_(i+1) exactly e_i + 1 microsecond: the spans are
\* contiguous and do not overlap.
C4_EachIsOneFrame ==
    Ranging("span_range") =>
        \A i \in 1..Len(out) :
            /\ Agree(out[i].first, start_of(out[i].first, gen.frame))
            /\ Agree(out[i].second, end_of(out[i].first, gen.frame, 1))

C4_Contiguous ==
    Ranging("span_range") =>
        \A i \in 1..(Len(out) - 1) :
            /\ Agree(out[i + 1].first, shift(out[i].second, OneMicrosecond))
            /\ Before(out[i].second, out[i + 1].first)

\* C4: every pair Zulu.span_range yields is the span of one frame and each
\* next pair starts exactly one microsecond after the previous pair ends.
C4_SpanRange == C4_EachIsOneFrame /\ C4_Contiguous

----------------------------------------------------------------------------
\* C5: for every supported frame f, instant v and count,
\* v.end_of(f, count) equals
\* v.start_of(f).shift(<f>s=count).shift(microseconds=-1); so
\* v.end_of(f) + 1 microsecond == v.start_of(f).shift(<f>s=1), and the end
\* of a frame lies before the start of the next one.
TwoStepEnd(v, frame, count) ==
    LET s == start_of(v, frame)
        n == IF IsErr(s) THEN s ELSE shift(s, Scale(StepUnits(frame), count))
    IN  IF IsErr(n) THEN n ELSE shift(n, MinusOneMicrosecond)

NextFrameStart(v, frame) ==
    LET s == start_of(v, frame)
    IN  IF IsErr(s) THEN s ELSE shift(s, StepUnits(frame))

C5_EndIsTwoStep ==
    (op.name = "end_of" /\ op.frame \in TIME_FRAMES)
        => Agree(res, TwoStepEnd(recv, op.frame, op.count))

C5_EndPlusOneIsNextStart ==
    (op.name = "end_of" /\ op.frame \in TIME_FRAMES /\ op.count = 1)
        => /\ Agree(IF IsErr(res) THEN res ELSE shift(res, OneMicrosecond),
                    NextFrameStart(recv, op.frame))
           /\ (IsZulu(res) /\ IsZulu(NextFrameStart(recv, op.frame)))
                 => Before(res, NextFrameStart(recv, op.frame))

\* C5: end_of(f, count) is start_of(f) shifted by count frames and then by
\* minus one microsecond, and end_of(f) plus one microsecond is the start
\* of the next frame.
C5_SpanContiguity == C5_EndIsTwoStep /\ C5_EndPlusOneIsNextStart

----------------------------------------------------------------------------
\* C6: for every supported frame and start <= end, iterating range or
\* span_range emits finitely many elements and then halts by normal
\* exhaustion, at the first step whose end exceeds end.
C6_NormalExhaustion ==
    (Ranging("range") \/ Ranging("span_range")) =>
        /\ gen.pc # "raised"
        /\ Len(out) <= MaxSteps + 1

----------------------------------------------------------------------------
----------------------------------------------------------------------------
\* C8: shift first moves the date by years and months on the calendar (the
\* month count carries into the year, the day is clamped to the last day
\* of the target month) and then adds weeks, days, hours, minutes, seconds
\* and microseconds as one fixed-length duration; 2000-01-01 shifted by
\* years=2, months=7, weeks=13, days=400 is 2003-12-05.
CalendarThenDuration(v, u) ==
    LET idx == v.year * 12 + (v.month - 1) + u.years * 12 + u.months
        y   == idx \div 12
        m   == (idx % 12) + 1
        d   == IF v.day > DaysInMonth(y, m) THEN DaysInMonth(y, m) ELSE v.day
    IN  IF y < MINYEAR \/ y > MAXYEAR THEN Err("ValueError")
        ELSE DatetimeAdd(
                 MkDT(y, m, d, v.hour, v.minute, v.second, v.microsecond, UTC),
                 Timedelta(u.weeks * 7 + u.days, u.hours, u.minutes,
                           u.seconds, u.microseconds))

C8_ShiftCalendarThenDuration ==
    /\ (op.name = "shift" /\ IsZulu(recv))
          => Agree(res, CalendarThenDuration(recv, op.units))
    /\ ( /\ op.name = "shift"
         /\ recv = MkDT(2000, 1, 1, 0, 0, 0, 0, UTC)
         /\ op.units = [NoUnits EXCEPT !.years = 2, !.months = 7,
                                       !.weeks = 13, !.days = 400] )
          => res = MkDT(2003, 12, 5, 0, 0, 0, 0, UTC)

----------------------------------------------------------------------------
\* C9: for all keyword units u, v.subtract(**u) equals v.shift with every
\* unit negated and v.add(**u) equals v.shift(**u); subtract(days=-1) moves
\* the instant forward, to where shift(days=1) moves it.
C9_AddSubtractAreShifts ==
    /\ op.name = "subtract" => res = shift(recv, Neg(op.units))
    /\ op.name = "add" => res = shift(recv, op.units)
    /\ (op.name = "subtract" /\ op.units = [NoUnits EXCEPT !.days = 0 - 1]
            /\ IsZulu(res))
          => /\ Before(recv, res)
             /\ res = shift(recv, [NoUnits EXCEPT !.days = 1])

C9_Witness ==
    /\ op.name = "subtract"
    /\ op.units = [NoUnits EXCEPT !.days = 0 - 1]
    /\ recv = MkDT(2000, 1, 1, 0, 0, 0, 0, UTC)
    /\ res = MkDT(2000, 1, 2, 0, 0, 0, 0, UTC)

----------------------------------------------------------------------------
\* C10: start_of, end_of, span, range and span_range fail with the frame
\* error for every frame name outside TIME_FRAMES, whatever the receiver
\* and the start/end pair, and return or yield nothing.
C10_UnknownFrameRaises ==
    /\ (op.name \in {"start_of", "end_of", "span"} /\ op.frame \notin TIME_FRAMES)
          => res = FrameError
    /\ (gen.kind \in {"range", "span_range"} /\ gen.frame \notin TIME_FRAMES
            /\ Started)
          => (gen.pc = "raised" /\ gen.err = FrameError.err /\ out = <<>>)

----------------------------------------------------------------------------
WeeksAsDays(u) == [u EXCEPT !.weeks = 0, !.days = u.days + 7 * u.weeks]

----------------------------------------------------------------------------
\* C12: for every instant v and every frame f from second to century,
\* v.start_of(f) keeps the fields larger than f and sets every smaller field
\* to its minimum; for decade and century the year is rounded down to a
\* multiple of 10 and 100.
FloorFields(v, frame) ==
    CASE frame = "century" -> <<v.year - (v.year % 100), 1, 1, 0, 0, 0, 0>>
      [] frame = "decade"  -> <<v.year - (v.year % 10), 1, 1, 0, 0, 0, 0>>
      [] frame = "year"    -> <<v.year, 1, 1, 0, 0, 0, 0>>
      [] frame = "month"   -> <<v.year, v.month, 1, 0, 0, 0, 0>>
      [] frame = "day"     -> <<v.year, v.month, v.day, 0, 0, 0, 0>>
      [] frame = "hour"    -> <<v.year, v.month, v.day, v.hour, 0, 0, 0>>
      [] frame = "minute"  -> <<v.year, v.month, v.day, v.hour, v.minute, 0, 0>>
      [] frame = "second"  ->
            <<v.year, v.month, v.day, v.hour, v.minute, v.second, 0>>

C12_StartOfFloors ==
    (op.name = "start_of" /\ op.frame \in (TIME_FRAMES \ {"week"}))
        => (IsZulu(res) /\ InstantKey(res) = FloorFields(recv, op.frame))

----------------------------------------------------------------------------
\* C13: start_of is idempotent: for every instant v and every supported
\* frame f, v.start_of(f).start_of(f) == v.start_of(f).
StartOfAgain(first, frame) ==
    IsZulu(start_of(first, frame)) /\ SameInstant(start_of(first, frame), first)

C13_StartOfIdempotent ==
    (op.name = "start_of" /\ op.frame \in TIME_FRAMES /\ IsZulu(res))
        => StartOfAgain(res, op.frame)

----------------------------------------------------------------------------
ElapsedKeys(p, q) ==
    Timedelta(Ymd2Ord(p[1], p[2], p[3]) - Ymd2Ord(q[1], q[2], q[3]),
              p[4] - q[4], p[5] - q[5], p[6] - q[6], p[7] - q[7])

Elapsed(a, b) == ElapsedKeys(InstantKey(a), InstantKey(b))

SameDuration(x, td) ==
    /\ x.days = td.days
    /\ x.seconds = td.seconds
    /\ x.microseconds = td.microseconds

\* The right operand of a - b as a Zulu: a naive datetime read as UTC.
OtherZulu(b) == IF b.cls = "Zulu" THEN b.v ELSE fromdatetime(b.v)

AddsBack(b, delta, a) ==
    /\ IsZulu(__add__(b, Operand("Delta", delta)))
    /\ SameInstant(__add__(b, Operand("Delta", delta)), a)

\* C15: a - b, for b a Zulu or any datetime (a naive one taken as UTC), is
\* a Delta equal to the exact elapsed time between the two instants at
\* microsecond resolution, and b + (a - b) is a again; a - d for a duration
\* d is a Zulu (or leaves the representable years).
C15_SubtractionExact ==
    (op.name = "-") =>
        IF IsDuration(op.arg)
        THEN IsZulu(res) \/ res = Err("OverflowError")
        ELSE /\ IsDelta(res)
             /\ SameDuration(res, Elapsed(recv, OtherZulu(op.arg)))
             /\ AddsBack(OtherZulu(op.arg), res, recv)

\* The Delta alone: its type and its value.
C15_DeltaIsElapsed ==
    (op.name = "-" /\ ~IsDuration(op.arg)) =>
        IsDelta(res) /\ SameDuration(res, Elapsed(recv, OtherZulu(op.arg)))

\* The same for differences short enough for a float to hold them, between
\* values stored with tzinfo UTC.
C15_ExactWhenNear ==
    (/\ op.name = "-" /\ ~IsDuration(op.arg)
     /\ recv.tzinfo = UTC /\ OtherZulu(op.arg).tzinfo = UTC
     /\ FractionBits(Elapsed(recv, OtherZulu(op.arg)).days + 1, 0) >= 20
     /\ FractionBits(1 - Elapsed(recv, OtherZulu(op.arg)).days, 0) >= 20) =>
        /\ IsDelta(res)
        /\ SameDuration(res, Elapsed(recv, OtherZulu(op.arg)))
        /\ AddsBack(OtherZulu(op.arg), res, recv)

\* What timedelta's own method gives for the operator last applied.
Inherited == TimedeltaMethod(op.name, recv, op.arg)

\* C16: for Delta values a, b and a scalar k, the results of a+b, a-b, a*k,
\* k*a, a/k, a//k, abs(a), -a, +a, a % b and the remainder of divmod(a, b)
\* are Delta values, wherever timedelta's own operator has a result.
C16_DeltaClosure ==
    (op.name \in Rebound /\ ~IsErr(Inherited)) =>
        IF op.name = "__divmod__"
        THEN IsTuple(res) /\ IsDelta(res.remainder)
        ELSE IsDelta(res)

\* No operator returns a plain timedelta: what it returns is a Delta.
C16_NeverTimedelta ==
    (op.name \in Rebound /\ ~IsErr(res)) =>
        IF op.name = "__divmod__"
        THEN IsTuple(res) /\ IsDelta(res.remainder)
        ELSE IsDelta(res)

C16_Returned ==
    /\ op.name = "__divmod__"
    /\ recv = DeltaMax
    /\ IsTuple(res)
    /\ res.remainder = Delta(0, 0, 47, 6, 650225)

(***************************************************************************)
(* Parsing claims, read on the state after a call of Zulu.parse: obj is    *)
(* the object parsed, op.arg the formats and default_tz, res the Zulu or   *)
(* the exception, out the formats that were tried.                         *)
(***************************************************************************)
\* The call went through the formats: a str or a number was parsed and
\* default_tz was recognized.
ThroughFormats ==
    /\ op.name = "parse"
    /\ obj.cls \in {"str", "number"}
    /\ is_valid_timezone(op.arg.default_tz)

GivenFormats == FormatsOf(op.arg.formats)

\* What format number i alone makes of the object.
Alone(i) == _parse_datetime_format(obj, GivenFormats[i])

\* The first format of the list that succeeds on its own, if any.
Winners ==
    {i \in 1..Len(GivenFormats) :
        ~IsErr(Alone(i)) /\ \A j \in 1..(i - 1) : IsErr(Alone(j))}

\* The Zulu (or exception) that parse makes of the datetime a format gave.
Finished(dt) ==
    fromdatetime(CheckTimezone(WithDefault(dt, op.arg.default_tz)))

EveryFormatNamed ==
    [i \in 1..Len(GivenFormats) |-> <<GivenFormats[i], Alone(i).err>>]

C17_AllFailed ==
    /\ ThroughFormats
    /\ op.arg.formats = NoValue
    /\ IsErr(res)
    /\ Len(res.named) = 2
    /\ res.named[1][1] = ISO8601
    /\ res.named[2][1] = TIMESTAMP

\* The same text read by two lists in the two orders gives two dates.
C17_OrderMatters ==
    /\ ThroughFormats
    /\ GivenFormats = <<"%Y%d%m", ISO8601>>
    /\ out = <<"%Y%d%m">>
    /\ IsZulu(res) /\ res.month = 2 /\ res.day = 1

DefaultTz == op.arg.default_tz

\* The values the call parsed successfully: what the winning format gave,
\* the datetime that was passed, the fields of the dict.
ParsedValues ==
    IF obj.cls \in {"datetime", "dict"} THEN {obj.v}
    ELSE {Alone(k) : k \in Winners}

\* The value read in the default timezone when it carries none.
InDefaultTz(dt) ==
    IF dt.tzinfo = NoTz THEN [dt EXCEPT !.tzinfo = get_timezone(DefaultTz)]
    ELSE dt

Representable(dt) == Abs(UtcOffset(dt)) < 1440 /\ ~IsErr(AsUTC(dt))

UnrecognizedTimezone ==
    IsErr(res) /\ res.err = "ValueError: Unrecognized timezone"

\* C18: parse(obj, default_tz=z) reads a parsed value without timezone in z
\* (UTC when z is None) and returns its instant; a parsed value with a
\* timezone gives its own instant whatever z is; an unrecognized z raises
\* ValueError whatever obj is.
C18_DefaultTimezone ==
    (op.name = "parse") =>
        IF ~is_valid_timezone(DefaultTz) THEN UnrecognizedTimezone
        ELSE \A dt \in ParsedValues :
                Representable(InDefaultTz(dt)) =>
                    IsZulu(res) /\ SameInstant(res, InDefaultTz(dt))

\* The same for the strings and numbers, which go through the formats.
C18_ThroughFormats ==
    (op.name = "parse" /\ obj.cls \in {"str", "number"}) =>
        IF ~is_valid_timezone(DefaultTz) THEN UnrecognizedTimezone
        ELSE \A dt \in ParsedValues :
                Representable(InDefaultTz(dt)) =>
                    IsZulu(res) /\ SameInstant(res, InDefaultTz(dt))

\* A datetime with a timezone keeps its instant; an unrecognized z is
\* refused for every object but a dict.
C18_AwareAndRefused ==
    (op.name = "parse" /\ obj.cls # "dict") =>
        IF ~is_valid_timezone(DefaultTz) THEN UnrecognizedTimezone
        ELSE \A dt \in ParsedValues :
                (dt.tzinfo # NoTz /\ Representable(dt)) =>
                    IsZulu(res) /\ SameInstant(res, dt)

\* A text without offset read in UTC-05:00.
C18_Reached ==
    /\ ThroughFormats
    /\ DefaultTz = FixedWest
    /\ \E dt \in ParsedValues : dt.tzinfo = NoTz
    /\ res = ZuluNew(2000, 1, 1, 17, 0, 0, 0, UTC)

\* The groups iso8601 reads in the text, and the wall time they give.
Written == Match(1, obj.v, Groups0(obj.v))

Wall ==
    Datetime(Written.year, Or(Written.month, 1), Or(Written.day, 1),
             Or(Written.hour, 0), Or(Written.minute, 0), Or(Written.second, 0),
             Or(Written.fraction, 0), NoTz)

\* A text in ISO-8601 form with valid fields, parsed with ISO8601 as the
\* first format and a recognized default_tz.
IsoText ==
    /\ ThroughFormats
    /\ obj.cls = "str"
    /\ GivenFormats # <<>>
    /\ GivenFormats[1] = ISO8601
    /\ Digit2(obj.v, 1) /\ Digit2(obj.v, 3)
    /\ Written # NoMatch
    /\ ~IsErr(Wall)

\* The UTC offset of the parsed value, in minutes: the one written in the
\* text, else the one of the default timezone at that wall time.
OffsetOfParsed ==
    IF HasOffset(Written) THEN OffsetMinutes(Written)
    ELSE IF Written.zone = "Z" THEN 0
    ELSE UtcOffset([Wall EXCEPT !.tzinfo = get_timezone(DefaultTz)])

\* The wall time less the offset.
UtcEquivalent == DatetimeAdd(Wall, Timedelta(0, 0, 0 - OffsetOfParsed, 0, 0))

IsParseError == IsErr(res) /\ res.err = "ParseError"

C19_Rejected ==
    /\ IsoText
    /\ OffsetOfParsed = 1500
    /\ ~HasOffset(Written)
    /\ IsParseError

\* The text of a Zulu v was parsed back: recv is v, obj its text.
ParsedBack == op.name = "parse" /\ IsZulu(recv)

Suffix(s, n) == SubSeq(s, Len(s) - n + 1, Len(s))

\* isoformat ends in +00:00 and has a fraction only when microsecond # 0.
TextOfUTC ==
    /\ Suffix(obj.v, 6) = <<"+", "0", "0", ":", "0", "0">>
    /\ Len(obj.v) = IF recv.microsecond # 0 THEN 32 ELSE 25

\* C20: for every Zulu v, Zulu.parse(v.isoformat()) == v, where the text
\* ends in +00:00 and carries a fraction only when microsecond is not 0.
C20_IsoRoundTrip ==
    ParsedBack => IsZulu(res) /\ __eq__(res, recv) /\ TextOfUTC

\* The text and the instant do come back as claimed.
C20_SameInstant ==
    ParsedBack => IsZulu(res) /\ SameInstant(res, recv) /\ TextOfUTC

\* Values stored with tzinfo UTC are equal to what their text parses to.
C20_EqualWhenUTC ==
    (ParsedBack /\ recv.tzinfo = UTC) => IsZulu(res) /\ __eq__(res, recv)

\* A round trip with microseconds, at the last representable instant.
C20_Reached ==
    /\ ParsedBack
    /\ recv = ZuluMax
    /\ Len(obj.v) = 32
    /\ __eq__(res, recv)

\* The timestamp of a Zulu v was turned into a Zulu again: recv is v, obj
\* the float.
FromOwnTimestamp == op.name = "fromtimestamp"

\* C21: for every Zulu v, Zulu.fromtimestamp(v.timestamp()) == v.
C21_TimestampRoundTrip ==
    FromOwnTimestamp => IsZulu(res) /\ __eq__(res, recv)

\* Seconds from the epoch to v, whole: below 2^33 a double tells the
\* microseconds apart.
NearEpoch(v) == FractionBits(Magnitude(Elapsed(v, EPOCH)).days,
                             Magnitude(Elapsed(v, EPOCH)).seconds) >= 20

\* The round trip holds for values stored with tzinfo UTC that lie within
\* 2^33 seconds of the epoch, and for whole seconds anywhere.
C21_ExactWhenNear ==
    (FromOwnTimestamp /\ recv.tzinfo = UTC
        /\ (NearEpoch(recv) \/ recv.microsecond = 0)) =>
        IsZulu(res) /\ __eq__(res, recv)

\* The instant comes back for every value near the epoch, whatever tzinfo
\* is stored.
C21_SameInstantWhenNear ==
    (FromOwnTimestamp /\ NearEpoch(recv)) =>
        IsZulu(res) /\ SameInstant(res, recv)

\* The microseconds come back changed.
C21_Changed ==
    /\ FromOwnTimestamp
    /\ recv = ZuluNew(2300, 1, 1, 0, 0, 0, 1, NoTz)
    /\ res = ZuluNew(2300, 1, 1, 0, 0, 0, 2, NoTz)

\* A round trip with microseconds.
C21_Reached ==
    /\ FromOwnTimestamp
    /\ recv = ZuluNew(2015, 2, 5, 12, 30, 15, 123456, NoTz)
    /\ res = recv

(***************************************************************************)
(* Delta.parse by kind of input                                            *)
(***************************************************************************)
WasParsed == op.name = "parse"

DeltaOf(d, td) == IsDelta(d) /\ SameDuration(d, td)

\* The durations tests/test_delta.py expects of the strings given.
Duration(chars) ==
    IF chars = <<"3", "2", "m">> THEN Timedelta(0, 0, 32, 0, 0)
    ELSE IF chars = <<"2", "h", "3", "2", "m">> THEN Timedelta(0, 2, 32, 0, 0)
    ELSE IF chars = <<"3", "d", "2", "h", "3", "2", "m">>
    THEN Timedelta(3, 2, 32, 0, 0)
    ELSE IF chars = <<"1", "w", "3", "d", "2", "h", "3", "2", "m">>
    THEN Timedelta(10, 2, 32, 0, 0)
    ELSE IF chars = <<"4", ":", "1", "3">> THEN Timedelta(0, 0, 4, 13, 0)
    ELSE IF chars = <<"4", ":", "1", "3", ":", "0", "2">>
    THEN Timedelta(0, 4, 13, 2, 0)
    ELSE NoValue

IsParseErr(x) ==
    IsErr(x) /\ x = Err("ParseError: not a recognized duration format")

IsTypeErr(x) ==
    IsErr(x) /\ x = Err("TypeError: Expected string or number type")

ByKind ==
    IF obj.cls \in {"timedelta", "Delta"} THEN DeltaOf(res, obj.v)
    ELSE IF obj.cls \in NUMBER_TYPES
    THEN DeltaOf(res, Timedelta(0, 0, 0, obj.v, 0))
    ELSE IF obj.cls = "str"
    THEN (IF Duration(obj.v) = NoValue THEN IsParseErr(res)
          ELSE DeltaOf(res, Duration(obj.v)))
    ELSE IsTypeErr(res)

\* C22: Delta.parse of a timedelta or Delta is a Delta of equal value, of a
\* number a Delta of that many seconds, of a string in a duration grammar the
\* Delta of that duration, of any other string ParseError and of any other
\* type TypeError.
C22_ParseByKind == WasParsed => ByKind

\* Whole microseconds survive the double of fromtimedelta below 2^33 seconds.
ExactAsFloat(td) ==
    Magnitude(td).days < 99420 /\ Magnitude(td).days > 0 - 99420

\* The dispatch holds for every input but a Decimal and a duration the double
\* of fromtimedelta does not hold.
C22_ParseByKindWhenExact ==
    WasParsed /\ obj.cls # "Decimal"
        /\ (obj.cls \in {"timedelta", "Delta"} => ExactAsFloat(obj.v))
    => ByKind

\* Delta.parse returns a Delta or raises.
C22_DeltaOrError == WasParsed => IsDelta(res) \/ IsErr(res)

\* A timedelta comes back with another value.
C22_Changed ==
    /\ WasParsed
    /\ obj.cls = "timedelta"
    /\ obj.v = Timedelta(300000, 0, 0, 0, 1)
    /\ DeltaOf(res, Timedelta(300000, 0, 0, 0, 0))

\* A string of the unit grammar.
C22_Reached ==
    /\ WasParsed
    /\ obj.cls = "str"
    /\ obj.v = <<"2", "h", "3", "2", "m">>
    /\ DeltaOf(res, Timedelta(0, 2, 32, 0, 0))

\* A mapping.
C22_Refused == WasParsed /\ obj.cls = "dict" /\ IsTypeErr(res)


(***************************************************************************)
(* Timer as a stopwatch                                                    *)
(***************************************************************************)
StartCalls == {"start", "__enter__"}

StopCalls == {"stop", "__exit__"}

\* The calls made since the timer was constructed or last reset.
LastReset == 
    IF \E i \in 1..Len(out) : out[i].name = "reset"
    THEN CHOOSE i \in 1..Len(out) :
             /\ out[i].name = "reset"
             /\ \A k \in (i + 1)..Len(out) : out[k].name # "reset"
    ELSE 0

SinceReset == SubSeq(out, LastReset + 1, Len(out))

\* start, stop, start, stop, ...
Alternating(log) ==
    \A i \in 1..Len(log) :
        log[i].name = (IF i % 2 = 1 THEN "start" ELSE "stop")

\* The total length of the intervals an alternating log has run, the last
\* one up to now when it is still open.
RECURSIVE RunningTime(_, _, _)
RunningTime(log, i, now) ==
    IF i > Len(log) THEN 0
    ELSE (IF i + 1 <= Len(log) THEN log[i + 1].at ELSE now) - log[i].at
             + RunningTime(log, i + 2, now)

\* start() on a stopped timer carries the elapsed time over.
ResumeCarries ==
    op'.name \in StartCalls /\ stopped(obj)
        => elapsed(obj', op'.arg) = elapsed(obj, op'.arg)

\* elapsed() after alternating calls is the sum of the running intervals.
SumOfIntervals ==
    op.name = "elapsed" /\ Alternating(SinceReset)
        => res.v = RunningTime(SinceReset, 1, op.arg)

\* start() on a running timer starts over from its reading.
RestartDiscards ==
    op'.name \in StartCalls /\ started(obj)
        => /\ elapsed(obj', op'.arg) = 0
           /\ obj'.started_at = Some(op'.arg)

\* C23: start() on a stopped timer resumes with the elapsed time carried
\* over, elapsed() after alternating start/stop calls is the sum of the
\* lengths of the running intervals, and start() on a running timer restarts
\* it, discarding the time run so far.
C23_Stopwatch ==
    [][ResumeCarries /\ SumOfIntervals' /\ RestartDiscards]_vars

\* start at 5, stop at 10, start at 15, stop at 30: elapsed() is 20.
C23_Witness ==
    /\ op.name = "elapsed"
    /\ Len(out) = 4
    /\ out[1] = [name |-> "start", at |-> 5]
    /\ out[2] = [name |-> "stop", at |-> 10]
    /\ out[3] = [name |-> "start", at |-> 15]
    /\ out[4] = [name |-> "stop", at |-> 30]
    /\ res.v = 20

\* A running timer was started again.
C23_Restarted ==
    /\ op.name = "elapsed"
    /\ Len(out) = 2
    /\ out[1] = [name |-> "start", at |-> 5]
    /\ out[2] = [name |-> "start", at |-> 10]
    /\ op.arg = 15
    /\ res.v = 5

LastCall == IF out = <<>> THEN "reset" ELSE out[Len(out)].name

\* C24: in every state exactly one of started() and stopped() is true; a new
\* or reset timer is stopped with elapsed() 0; the timer is started after
\* start() and stopped after stop(), also when stop() is called on leaving a
\* with block.
C24_StartedXorStopped ==
    /\ started(obj) # stopped(obj)
    /\ op.name = "started" => res.v = ~stopped(obj)
    /\ op.name = "stopped" => res.v = ~started(obj)
    /\ LastCall = "reset" => stopped(obj) /\ elapsed(obj, op.arg) = 0
    /\ LastCall = "start" => started(obj)
    /\ LastCall = "stop" => stopped(obj)

\* A with block entered at 5 is left at 10.
C24_Witness ==
    /\ op.name = "__exit__"
    /\ started(recv)
    /\ recv.started_at = Some(5)
    /\ op.arg = 10
    /\ stopped(obj)

\* stop() at the reading of start().
C24_StoppedAtOnce ==
    /\ op.name \in StopCalls
    /\ obj.started_at = obj.stopped_at
    /\ obj.started_at # None

\* Started with nothing carried over and still running.
FreshRun ==
    /\ SinceReset # <<>>
    /\ Alternating(SinceReset) 
    /\ Len(SinceReset) = 1

\* C25: remaining() is timeout - elapsed(), done() is elapsed() >= timeout,
\* and a timer started at t0 with nothing carried over and still running is
\* not done before t0 + timeout and done from then on.
C25_Countdown ==
    /\ op.name = "remaining" => res.v = obj.timeout - elapsed(obj, op.arg)
    /\ op.name = "done" => res.v = (elapsed(obj, op.arg) >= obj.timeout)
    /\ op.name = "done" /\ FreshRun
           => res.v = (op.arg >= SinceReset[1].at + obj.timeout)

\* done() at exactly t0 + timeout.
C25_Witness ==
    /\ op.name = "done"
    /\ FreshRun
    /\ obj.timeout = 10
    /\ SinceReset[1].at = 5
    /\ op.arg = 15
    /\ res.v

\* done() before t0 + timeout.
C25_NotYet ==
    /\ op.name = "done"
    /\ FreshRun
    /\ obj.timeout = 10
    /\ op.arg = 10
    /\ SinceReset[1].at = 5
    /\ ~res.v

\* C29: while the timer is stopped elapsed() does not change, whatever is
\* called before the next start() or reset(), further stop() calls included.
C29_FrozenWhileStopped ==
    [][stopped(obj) /\ op'.name \notin StartCalls \cup {"reset"}
           => elapsed(obj', op'.arg) = elapsed(obj, op.arg)]_vars

\* It does not change as long as stop() is not called again.
C29_FrozenUntilStop ==
    [][stopped(obj) /\ op'.name \notin StartCalls \cup StopCalls \cup {"reset"}
           => elapsed(obj', op'.arg) = elapsed(obj, op.arg)]_vars

\* A second stop() on a timer that ran from 5 to 10.
C29_StoppedTwice ==
    /\ op.name = "elapsed"
    /\ Len(out) = 3
    /\ out[1] = [name |-> "start", at |-> 5]
    /\ out[2] = [name |-> "stop", at |-> 10]
    /\ out[3] = [name |-> "stop", at |-> 15]
    /\ res.v = 10


(***************************************************************************)
(* start_of and end_of over the whole range of values                      *)
(***************************************************************************)
FrameCall ==
    /\ op.name \in {"start_of", "end_of"}
    /\ op.frame \in TIME_FRAMES
    /\ (op.name = "end_of" => op.count = 1)
    /\ IsZulu(recv)

Around ==
    IF op.name = "start_of" THEN IsZulu(res) /\ NotAfter(res, recv)
    ELSE IsZulu(res) /\ NotAfter(recv, res)

\* C26: for every instant v of the years 1 to 9999 and every supported frame
\* f, v.start_of(f) and v.end_of(f) return an instant, and
\* v.start_of(f) <= v <= v.end_of(f).
C26_FrameTotal == FrameCall => Around

\* The century of recv lies within the years 1 to 9999 with a year to spare, on
\* a value stored in UTC.
AwayFromBounds ==
    /\ recv.tzinfo = UTC
    /\ recv.year >= 100
    /\ recv.year < 9900

C26_FrameTotalAwayFromBounds == FrameCall /\ AwayFromBounds => Around

\* The end of the year 9999 is asked and refused.
C26_LastYear ==
    /\ op.name = "end_of"
    /\ op.frame = "year"
    /\ op.count = 1
    /\ recv = MkDT(9999, 3, 1, 0, 0, 0, 0, UTC)
    /\ IsErr(res)

\* The start of the first century is asked and refused.
C26_FirstCentury ==
    /\ op.name = "start_of"
    /\ op.frame = "century"
    /\ recv = MkDT(1, 1, 1, 0, 0, 0, 0, UTC)
    /\ IsErr(res)

\* The end of a month strictly after the value.
C26_Reached ==
    /\ op.name = "end_of"
    /\ op.frame = "month"
    /\ op.count = 1
    /\ recv = MkDT(2015, 2, 5, 12, 30, 15, 123456, UTC)
    /\ res = MkDT(2015, 2, 28, 23, 59, 59, 999999, UTC)


(***************************************************************************)
(* The elements of Zulu.range against shifts of its start                  *)
(***************************************************************************)
\* start.shift(<frame>s=k), 10 or 100 years to a decade or a century
InOneGo(k) == shift(gen.start, Scale(StepUnits(gen.frame), k))

\* C27: the k-th element yielded by Zulu.range(frame, start, end), counted
\* from 0, equals start shifted by k steps of the frame in one call of
\* shift, for every frame and every start, a start on day 29, 30 or 31 with
\* a month or year frame included.
C27_KthInOneGo ==
    Ranging("range") =>
        \A i \in 1..Len(out) : Agree(out[i], InOneGo(i - 1))

RECURSIVE StepByStep(_, _, _)
StepByStep(v, units, k) ==
    IF k = 0 \/ IsErr(v) THEN v ELSE StepByStep(shift(v, units), units, k - 1)

\* No step of the frame can land on a day the month does not have, from a
\* start stored in UTC.
NoShortMonth ==
    /\ gen.start.tzinfo = UTC
    /\ \/ gen.frame \notin {"month", "year", "decade", "century"}
       \/ gen.start.day <= 28

\* The k-th element is start shifted k times by one step, each shift applied
\* to the result of the one before; it is start shifted in one call
\* where no step can land on a day the month does not have.
C27_KthStepByStep ==
    Ranging("range") =>
        \A i \in 1..Len(out) :
            /\ Agree(out[i], StepByStep(gen.start, StepUnits(gen.frame), i - 1))
            /\ NoShortMonth => Agree(out[i], InOneGo(i - 1))

\* range("month", 2000-01-31, 2000-04-30): the third element is March 29.
C27_Witness ==
    /\ gen.kind = "range"
    /\ gen.frame = "month"
    /\ gen.start = MkDT(2000, 1, 31, 0, 0, 0, 0, UTC)
    /\ Len(out) = 3
    /\ out[3] = MkDT(2000, 3, 29, 0, 0, 0, 0, UTC)
    /\ InOneGo(2) = MkDT(2000, 3, 31, 0, 0, 0, 0, UTC)


(***************************************************************************)
(* add followed by subtract of the same units                              *)
(***************************************************************************)
Added == op.name = "add" /\ IsZulu(recv) /\ IsZulu(res)

BackAgain ==
    /\ IsZulu(subtract(res, op.units))
    /\ __eq__(subtract(res, op.units), recv)

\* C28: for every instant v and all keyword units u for which v.add(**u) is
\* representable, v.add(**u).subtract(**u) == v.
C28_AddSubtractInverse == Added => BackAgain

\* Units of fixed length only, added to a value stored in UTC.
FixedLength ==
    /\ op.units.years = 0
    /\ op.units.months = 0
    /\ recv.tzinfo = UTC

C28_InverseWhenFixedLength == Added /\ FixedLength => BackAgain

\* January 31 plus one month is February 29, which minus one month is
\* January 29.
C28_Clamped ==
    /\ Added
    /\ recv = MkDT(2000, 1, 31, 0, 0, 0, 0, UTC)
    /\ op.units = [NoUnits EXCEPT !.months = 1]
    /\ res = MkDT(2000, 2, 29, 0, 0, 0, 0, UTC)
    /\ subtract(res, op.units) = MkDT(2000, 1, 29, 0, 0, 0, 0, UTC)

\* 25 hours less 1.5 seconds added and taken away again.
C28_Reached ==
    /\ Added
    /\ recv = MkDT(2015, 2, 5, 12, 30, 15, 123456, UTC)
    /\ op.units = [NoUnits EXCEPT !.hours = 25, !.microseconds = 0 - 1500000]
    /\ subtract(res, op.units) = recv


(***************************************************************************)
(* The spans of Zulu.span_range against its start and end                  *)
(***************************************************************************)
\* C30: every span (s, e) yielded by Zulu.span_range(frame, start, end) has
\* e <= end, so a span ending after end is never yielded, and the first span
\* is the frame containing start: its s is start.start_of(frame), which is
\* <= start.
C30_SpansEndByEnd ==
    Ranging("span_range") =>
        /\ \A i \in 1..Len(out) : NotAfter(out[i].second, gen.end)
        /\ Len(out) >= 1 =>
              /\ out[1].first = start_of(gen.start, gen.frame)
              /\ NotAfter(out[1].first, gen.start)

\* span_range("month", 2015-02-05T12:30:15.123456, end in March 2015) is
\* over after February, which begins before start; March overlaps and is
\* not yielded.
C30_Witness ==
    /\ gen.kind = "span_range"
    /\ gen.frame = "month"
    /\ gen.pc = "done"
    /\ gen.start = MkDT(2015, 2, 5, 12, 30, 15, 123456, UTC)
    /\ gen.end.month = 3
    /\ Len(out) = 1
    /\ out[1].first = MkDT(2015, 2, 1, 0, 0, 0, 0, UTC)
    /\ Before(out[1].first, gen.start)
    /\ Before(out[1].second, gen.end)

====
